---- MODULE Spec2Model ----
(***************************************************************************)
(* The stdio-to-HTTP bridge of chroma-mcp                                  *)
(* (src/mcp-chroma-bridge/mcp_chroma_bridge.py, class MCPChromaBridge)     *)
(* as a state machine: the read loop of _process_messages, the local       *)
(* answers, _forward_to_remote and _get_remote_tools, with the gateway as  *)
(* a nondeterministic environment that answers each HTTP request.          *)
(*                                                                         *)
(* Python str values are strings; startswith, the substring test,          *)
(* f-string concatenation, rstrip and json.dumps are computed on their     *)
(* characters with Len, SubSeq, Head, Tail and \o.  JSON values are        *)
(* tagged records; a JSON object is the sequence of its (key, value)       *)
(* items in insertion order, as a Python dict keeps them.                  *)
(***************************************************************************)
EXTENDS Integers, Sequences, FiniteSets, TLC

(***************************************************************************)
(* JSON values, as json.loads yields them and json.dumps takes them.       *)
(***************************************************************************)
JNull == [kind |-> "null"]

JBool(b) == [kind |-> "bool", b |-> b]

JNum(n) == [kind |-> "num", n |-> n]

JStr(s) == [kind |-> "str", s |-> s]

JArr(es) == [kind |-> "arr", elems |-> es]

JObj(its) == [kind |-> "obj", items |-> its]

Item(k, v) == [k |-> k, v |-> v]

IsDict(v) == v.kind = "obj"

IsStr(v) == v.kind = "str"

(* key in d, for a dict d *)
HasKey(d, key) == \E i \in 1..Len(d.items) : d.items[i].k = key

(* d[key], for a dict d that has the key *)
Lookup(d, key) ==
    d.items[CHOOSE i \in 1..Len(d.items) : d.items[i].k = key].v

(* the mark of a key that a dict does not have *)
Absent == [kind |-> "absent"]

(* a dict with the given items, leaving out the ones marked Absent *)
Dict(its) == JObj(SelectSeq(its, LAMBDA it : it.v # Absent))

(* d.get(key): None when the key is absent *)
Get(d, key) == IF HasKey(d, key) THEN Lookup(d, key) ELSE JNull

(* d.get(key, default) *)
GetOr(d, key, default) == IF HasKey(d, key) THEN Lookup(d, key) ELSE default

(* a faulty startswith: the last character of the prefix is not compared *)
StartsWith_short(s, prefix) ==
    /\ Len(s) >= Len(prefix) - 1
    /\ SubSeq(s, 1, Len(prefix) - 1) = SubSeq(prefix, 1, Len(prefix) - 1)

(* s.startswith(prefix) *)
StartsWith(s, prefix) ==
    /\ Len(s) >= Len(prefix)
    /\ SubSeq(s, 1, Len(prefix)) = prefix

(* needle in s, for str s: the substring test *)
Contains(s, needle) ==
    \E i \in 0..(Len(s) - Len(needle)) : SubSeq(s, i + 1, i + Len(needle)) = needle

(* str(n) for an int n *)
RECURSIVE Digits(_)
Digits(n) ==
    LET d == <<"0", "1", "2", "3", "4", "5", "6", "7", "8", "9">>[(n % 10) + 1]
    IN  IF n < 10 THEN d ELSE Digits(n \div 10) \o d

IntStr(n) == IF n < 0 THEN "-" \o Digits(0 - n) ELSE Digits(n)

(* json.dumps of a str: quoted, with quote, backslash and newline escaped *)
RECURSIVE Escape(_)
Escape(s) ==
    IF s = "" THEN ""
    ELSE LET c == Head(s)
             e == CASE c = "\"" -> "\\\""
                    [] c = "\\" -> "\\\\"
                    [] c = "\n" -> "\\n"
                    [] OTHER -> c
         IN  e \o Escape(Tail(s))

Quote(s) == "\"" \o Escape(s) \o "\""

(* json.dumps(v): the default separators ", " and ": ", keys in dict order *)
RECURSIVE Dumps(_)
RECURSIVE DumpElems(_)
RECURSIVE DumpItems(_)
Dumps(v) ==
    CASE v.kind = "null" -> "null"
      [] v.kind = "bool" -> IF v.b THEN "true" ELSE "false"
      [] v.kind = "num" -> IntStr(v.n)
      [] v.kind = "str" -> Quote(v.s)
      [] v.kind = "arr" -> "[" \o DumpElems(v.elems) \o "]"
      [] v.kind = "obj" -> "{" \o DumpItems(v.items) \o "}"

DumpElems(es) ==
    IF es = <<>> THEN ""
    ELSE Dumps(Head(es))
         \o (IF Len(es) > 1 THEN ", " ELSE "")
         \o DumpElems(Tail(es))

DumpItems(its) ==
    IF its = <<>> THEN ""
    ELSE Quote(Head(its).k) \o ": " \o Dumps(Head(its).v)
         \o (IF Len(its) > 1 THEN ", " ELSE "")
         \o DumpItems(Tail(its))

(***************************************************************************)
(* Python outcomes: a value, or a raised exception with its str().         *)
(***************************************************************************)
None == JNull

Ok(v) == [ok |-> TRUE, val |-> v]

Raise(type, text) == [ok |-> FALSE, exc |-> [type |-> type, text |-> text]]

(* type(v).__name__ of a JSON value *)
TypeName(v) ==
    CASE v.kind = "null" -> "NoneType"
      [] v.kind = "bool" -> "bool"
      [] v.kind = "num" -> "int"
      [] v.kind = "str" -> "str"
      [] v.kind = "arr" -> "list"
      [] v.kind = "obj" -> "dict"

(* v.get(...) on a value that is not a dict: AttributeError *)
NoAttribute(v, attr) ==
    Raise("AttributeError",
          "'" \o TypeName(v) \o "' object has no attribute '"
              \o attr \o "'")

(* v[key], for a str key: KeyError on a dict without it, TypeError on a    *)
(* value that is not a dict                                                *)
Subscript(v, key) ==
    CASE v.kind = "obj" ->
             IF HasKey(v, key) THEN Ok(Lookup(v, key))
             ELSE Raise("KeyError", "'" \o key \o "'")
      [] v.kind = "arr" ->
             Raise("TypeError", "list indices must be integers or slices, not str")
      [] v.kind = "str" ->
             Raise("TypeError", "string indices must be integers, not 'str'")
      [] OTHER ->
             Raise("TypeError",
                   "'" \o TypeName(v) \o "' object is not subscriptable")

(* needle in v, for a str needle: key membership on a dict, element        *)
(* membership on a list, the substring test on a str, TypeError otherwise  *)
In(needle, v) ==
    CASE v.kind = "obj" -> Ok(HasKey(v, needle))
      [] v.kind = "arr" -> Ok(\E i \in 1..Len(v.elems) : v.elems[i] = JStr(needle))
      [] v.kind = "str" -> Ok(Contains(v.s, needle))
      [] OTHER ->
             Raise("TypeError",
                   "argument of type '" \o TypeName(v) \o "' is not iterable")

(***************************************************************************)
(* stdin: a line read by sys.stdin.readline.  readline returns '' at       *)
(* end-of-stream; a line is blank, text that is no JSON, or the            *)
(* serialization of a JSON value.                                          *)
(***************************************************************************)
EndOfStream == [raw |-> "eof"]

BlankLine == [raw |-> "blank"]

GarbageLine == [raw |-> "garbage"]

JsonLine(v) == [raw |-> "json", val |-> v]

(* json.loads(line.strip()) *)
json_loads(line) ==
    IF line.raw = "json" THEN Ok(line.val)
    ELSE Raise("JSONDecodeError", "Expecting value: line 1 column 1 (char 0)")

(* MCPChromaBridge._read_message: None at end-of-stream and on a line      *)
(* that fails to parse; the parsed value otherwise (None for JSON null)    *)
read_message(line) ==
    IF line = EndOfStream THEN None
    ELSE LET parsed == json_loads(line)
         IN  IF parsed.ok THEN parsed.val ELSE None

(***************************************************************************)
(* The outbound HTTP side: requests of self.client, replies of the gateway *)
(***************************************************************************)
NoRequest == [verb |-> "none"]

Post(url, json) == [verb |-> "POST", url |-> url, json |-> json]

HttpGet(url) == [verb |-> "GET", url |-> url]

(* client.post / client.get raised instead of returning a response *)
TransportError(type, text) == [t |-> "exc", exc |-> [type |-> type, text |-> text]]

(* a response: its status, its body text, and what json.loads makes of it *)
Response(status, text, json) ==
    [t |-> "resp", status |-> status, text |-> text, json |-> json]

(* a response whose body is the json.dumps serialization of a JSON value *)
JsonResponse(status, v) == Response(status, Dumps(v), Ok(v))

(* a response whose body is text that is no JSON *)
TextResponse(status, text) ==
    Response(status, text,
             Raise("JSONDecodeError", "Expecting value: line 1 column 1 (char 0)"))

(* httpx Response.is_success *)
is_success(response) == response.status >= 200 /\ response.status <= 299

(* httpx Response.text *)
response_text(response) == response.text

(* httpx Response.json() *)
response_json(response) == response.json

(***************************************************************************)
(* MCPChromaBridge._forward_to_remote                                      *)
(***************************************************************************)
(* the -32601 reply of lines 97-104 *)
UnknownTool(message, tool_name) ==
    JObj(<<Item("jsonrpc", JStr("2.0")),
           Item("error", JObj(<<Item("code", JNum(-32601)),
                                Item("message", JStr("Unknown tool: " \o tool_name))>>)),
           Item("id", Get(message, "id"))>>)

(* a faulty HTTPStatusError reply: the response body is not carried as data *)
RemoteServerError_nodata(message, response) ==
    JObj(<<Item("jsonrpc", JStr("2.0")),
           Item("error", JObj(<<Item("code", JNum(-32603)),
                                Item("message", JStr("Remote server error: "
                                                     \o IntStr(response.status)))>>)),
           Item("id", Get(message, "id"))>>)

(* except httpx.HTTPStatusError, lines 140-150 *)
RemoteServerError(message, response) ==
    JObj(<<Item("jsonrpc", JStr("2.0")),
           Item("error", JObj(<<Item("code", JNum(-32603)),
                                Item("message", JStr("Remote server error: "
                                                     \o IntStr(response.status))),
                                Item("data", JStr(response_text(response)))>>)),
           Item("id", Get(message, "id"))>>)

(* a faulty except Exception reply: the exception's text is left out *)
InternalError_notext(message, exc) ==
    JObj(<<Item("jsonrpc", JStr("2.0")),
           Item("error", JObj(<<Item("code", JNum(-32603)),
                                Item("message", JStr("Internal error"))>>)),
           Item("id", Get(message, "id"))>>)

(* a faulty except Exception reply: the id is not taken from the message *)
InternalError_noid(message, exc) ==
    JObj(<<Item("jsonrpc", JStr("2.0")),
           Item("error", JObj(<<Item("code", JNum(-32603)),
                                Item("message", JStr("Internal error: " \o exc.text))>>)),
           Item("id", None)>>)

(* except Exception, lines 151-160 *)
InternalError(message, exc) ==
    JObj(<<Item("jsonrpc", JStr("2.0")),
           Item("error", JObj(<<Item("code", JNum(-32603)),
                                Item("message", JStr("Internal error: " \o exc.text))>>)),
           Item("id", Get(message, "id"))>>)

(* a faulty wrapping: a payload with an error key is read as a failure and *)
(* answered with a JSON-RPC error                                          *)
ToolContent_interpreted(message, result) ==
    IF IsDict(result) /\ HasKey(result, "error")
    THEN JObj(<<Item("jsonrpc", JStr("2.0")),
                Item("error", JObj(<<Item("code", JNum(-32603)),
                                     Item("message", Lookup(result, "error"))>>)),
                Item("id", Get(message, "id"))>>)
    ELSE
    JObj(<<Item("jsonrpc", JStr("2.0")),
           Item("result",
                JObj(<<Item("content",
                            JArr(<<JObj(<<Item("type", JStr("text")),
                                          Item("text",
                                               IF ~IsStr(result) THEN JStr(Dumps(result))
                                               ELSE result)>>)>>))>>)),
           Item("id", Get(message, "id"))>>)

(* lines 119-130: a tool result wrapped as MCP content *)
ToolContent(message, result) ==
    JObj(<<Item("jsonrpc", JStr("2.0")),
           Item("result",
                JObj(<<Item("content",
                            JArr(<<JObj(<<Item("type", JStr("text")),
                                          Item("text",
                                               IF ~IsStr(result) THEN JStr(Dumps(result))
                                               ELSE result)>>)>>))>>)),
           Item("id", Get(message, "id"))>>)

(* lines 132-136: any other result wrapped as the JSON-RPC result *)
PlainResult(message, result) ==
    JObj(<<Item("jsonrpc", JStr("2.0")),
           Item("result", result),
           Item("id", Get(message, "id"))>>)

(* a faulty forward: a tool call posts the whole message, not its arguments *)
forward_request_whole(message, remote_url) ==
    IF Get(message, "method") = JStr("tools/call")
    THEN LET params == Subscript(message, "params")
         IN  IF ~params.ok THEN [t |-> "return", val |-> InternalError(message, params.exc)]
             ELSE
             LET name == Subscript(params.val, "name")
             IN  IF ~name.ok THEN [t |-> "return", val |-> InternalError(message, name.exc)]
                 ELSE
                 LET tool_name == name.val
                 IN  IF ~IsStr(tool_name)
                     THEN [t |-> "return",
                           val |-> InternalError(message,
                                       NoAttribute(tool_name, "startswith").exc)]
                     ELSE IF StartsWith(tool_name.s, "chroma_")
                     THEN [t |-> "send",
                           req |-> Post(remote_url \o "/tools/" \o tool_name.s, message)]
                     ELSE [t |-> "return", val |-> UnknownTool(message, tool_name.s)]
    ELSE [t |-> "send", req |-> Post(remote_url \o "/mcp", message)]

(* Lines 82-110, up to the await of self.client.post: either the request   *)
(* to send, or the value returned without one.                             *)
forward_request(message, remote_url) ==
    IF Get(message, "method") = JStr("tools/call")
    THEN LET params == Subscript(message, "params")
         IN  IF ~params.ok THEN [t |-> "return", val |-> InternalError(message, params.exc)]
             ELSE
             LET name == Subscript(params.val, "name")
             IN  IF ~name.ok THEN [t |-> "return", val |-> InternalError(message, name.exc)]
                 ELSE
                 LET tool_name == name.val
                     tool_args == GetOr(params.val, "arguments", JObj(<<>>))
                 IN  IF ~IsStr(tool_name)
                     THEN [t |-> "return",
                           val |-> InternalError(message,
                                       NoAttribute(tool_name, "startswith").exc)]
                     ELSE IF StartsWith(tool_name.s, "chroma_")
                     THEN [t |-> "send",
                           req |-> Post(remote_url \o "/tools/" \o tool_name.s,
                                        tool_args)]
                     ELSE [t |-> "return", val |-> UnknownTool(message, tool_name.s)]
    ELSE [t |-> "send", req |-> Post(remote_url \o "/mcp", message)]

(* Lines 112-160, from the return of self.client.post: the value returned  *)
(* for the gateway's reply.                                                *)
forward_response(message, reply) ==
    IF reply.t = "exc" THEN InternalError(message, reply.exc)
    ELSE IF ~is_success(reply) THEN RemoteServerError(message, reply)
    ELSE
    LET parsed == response_json(reply)
    IN  IF ~parsed.ok THEN InternalError(message, parsed.exc)
        ELSE
        LET result == parsed.val
            shaped == In("jsonrpc", result)
        IN  IF ~shaped.ok THEN InternalError(message, shaped.exc)
            ELSE IF ~shaped.val
            THEN IF Get(message, "method") = JStr("tools/call")
                 THEN ToolContent(message, result)
                 ELSE PlainResult(message, result)
            ELSE result

(***************************************************************************)
(* MCPChromaBridge._get_default_tools                                      *)
(***************************************************************************)
TString == JObj(<<Item("type", JStr("string"))>>)

TInteger == JObj(<<Item("type", JStr("integer"))>>)

TObject == JObj(<<Item("type", JStr("object"))>>)

TStrings == JObj(<<Item("type", JStr("array")), Item("items", TString)>>)

TObjects == JObj(<<Item("type", JStr("array")), Item("items", TObject)>>)

Tool(name, description, properties, required) ==
    JObj(<<Item("name", JStr(name)),
           Item("description", JStr(description)),
           Item("inputSchema", JObj(<<Item("type", JStr("object")),
                                      Item("properties", JObj(properties)),
                                      Item("required", JArr(required))>>))>>)

get_default_tools ==
    JArr(<<
      Tool("chroma_list_collections", "List all collections in ChromaDB", <<>>, <<>>),
      Tool("chroma_create_collection", "Create a new collection in ChromaDB",
           <<Item("collection_name", TString),
             Item("embedding_function_name", TString),
             Item("metadata", TObject)>>,
           <<JStr("collection_name")>>),
      Tool("chroma_get_collection", "Get details about a specific collection",
           <<Item("collection_name", TString)>>,
           <<JStr("collection_name")>>),
      Tool("chroma_delete_collection", "Delete a collection from ChromaDB",
           <<Item("collection_name", TString)>>,
           <<JStr("collection_name")>>),
      Tool("chroma_add_documents", "Add documents to a collection",
           <<Item("collection_name", TString),
             Item("documents", TStrings),
             Item("ids", TStrings),
             Item("metadatas", TObjects)>>,
           <<JStr("collection_name"), JStr("documents")>>),
      Tool("chroma_query_collection", "Query documents in a collection",
           <<Item("collection_name", TString),
             Item("query_texts", TStrings),
             Item("n_results", TInteger),
             Item("where", TObject),
             Item("where_document", TObject)>>,
           <<JStr("collection_name"), JStr("query_texts")>>),
      Tool("chroma_update_documents", "Update documents in a collection",
           <<Item("collection_name", TString),
             Item("ids", TStrings),
             Item("documents", TStrings),
             Item("metadatas", TObjects)>>,
           <<JStr("collection_name"), JStr("ids")>>),
      Tool("chroma_delete_documents", "Delete documents from a collection",
           <<Item("collection_name", TString),
             Item("ids", TStrings),
             Item("where", TObject)>>,
           <<JStr("collection_name")>>)
    >>)

(***************************************************************************)
(* MCPChromaBridge._get_remote_tools, from the return of self.client.get   *)
(***************************************************************************)
(* a faulty shape test: a reply that is itself a list is not taken *)
get_remote_tools_nolist(reply) ==
    IF reply.t = "exc" THEN get_default_tools
    ELSE IF ~is_success(reply) THEN get_default_tools
    ELSE
    LET parsed == response_json(reply)
    IN  IF ~parsed.ok THEN get_default_tools
        ELSE
        LET tools_data == parsed.val
        IN  IF IsDict(tools_data) /\ HasKey(tools_data, "tools")
            THEN Lookup(tools_data, "tools")
            ELSE get_default_tools

(* a faulty fallback: an empty catalog instead of the default one *)
get_remote_tools_empty(reply) ==
    IF reply.t = "exc" THEN JArr(<<>>)
    ELSE IF ~is_success(reply) THEN JArr(<<>>)
    ELSE
    LET parsed == response_json(reply)
    IN  IF ~parsed.ok THEN JArr(<<>>)
        ELSE
        LET tools_data == parsed.val
        IN  IF IsDict(tools_data) /\ HasKey(tools_data, "tools")
            THEN Lookup(tools_data, "tools")
            ELSE IF tools_data.kind = "arr" THEN tools_data
            ELSE JArr(<<>>)

get_remote_tools(reply) ==
    IF reply.t = "exc" THEN get_default_tools
    ELSE IF ~is_success(reply) THEN get_default_tools
    ELSE
    LET parsed == response_json(reply)
    IN  IF ~parsed.ok THEN get_default_tools
        ELSE
        LET tools_data == parsed.val
        IN  IF IsDict(tools_data) /\ HasKey(tools_data, "tools")
            THEN Lookup(tools_data, "tools")
            ELSE IF tools_data.kind = "arr" THEN tools_data
            ELSE get_default_tools

(***************************************************************************)
(* The replies of _process_messages, lines 174-198                         *)
(***************************************************************************)
InitializeResult(message, version) ==
    JObj(<<Item("jsonrpc", JStr("2.0")),
           Item("result",
                JObj(<<Item("protocolVersion", version),
                       Item("capabilities", JObj(<<Item("tools", JObj(<<>>))>>)),
                       Item("serverInfo",
                            JObj(<<Item("name", JStr("mcp-chroma-bridge")),
                                   Item("version", JStr("1.0.0"))>>))>>)),
           Item("id", Get(message, "id"))>>)

ToolsListResult(message, tools) ==
    JObj(<<Item("jsonrpc", JStr("2.0")),
           Item("result", JObj(<<Item("tools", tools)>>)),
           Item("id", Get(message, "id"))>>)

(* message.get("params", {}).get("protocolVersion", "2024-11-05") *)
protocol_version(message) ==
    LET params == GetOr(message, "params", JObj(<<>>))
    IN  IF ~IsDict(params) THEN NoAttribute(params, "get")
        ELSE Ok(GetOr(params, "protocolVersion", JStr("2024-11-05")))

(* str.rstrip('/') *)
RECURSIVE RStrip(_)
RStrip(s) ==
    IF s # "" /\ SubSeq(s, Len(s), Len(s)) = "/"
    THEN RStrip(SubSeq(s, 1, Len(s) - 1))
    ELSE s

(***************************************************************************)
(* The gateway, chroma_mcp/http_server.py                                  *)
(***************************************************************************)
(* the tool functions chroma_mcp/server.py defines (its @mcp.tool()s) *)
server_tools ==
    {"chroma_list_collections", "chroma_create_collection", "chroma_peek_collection",
     "chroma_get_collection_info", "chroma_get_collection_count",
     "chroma_modify_collection", "chroma_delete_collection", "chroma_add_documents",
     "chroma_query_documents", "chroma_get_documents", "chroma_update_documents",
     "chroma_delete_documents", "chroma_list_databases", "chroma_create_database",
     "chroma_delete_database", "chroma_get_current_context", "chroma_switch_context"}

(* the names of `from chroma_mcp.server import (...)` in execute_tool *)
imported_tools ==
    <<"chroma_list_collections", "chroma_create_collection", "chroma_peek_collection",
      "chroma_get_collection_info", "chroma_get_collection_count",
      "chroma_modify_collection", "chroma_delete_collection", "chroma_add_documents",
      "chroma_query_documents", "chroma_get_documents", "chroma_update_documents",
      "chroma_delete_documents", "chroma_list_databases", "chroma_get_current_context",
      "chroma_switch_context", "chroma_list_all_collections">>

(* the import statement: ImportError for the first name the module lacks   *)
(* (Python adds the module's file path to the text)                        *)
import_tools ==
    LET missing == {i \in 1..Len(imported_tools) : imported_tools[i] \notin server_tools}
    IN  IF missing = {} THEN Ok(None)
        ELSE LET first == CHOOSE i \in missing : \A j \in missing : i <= j
             IN  Raise("ImportError",
                       "cannot import name '" \o imported_tools[first]
                       \o "' from 'chroma_mcp.server'")

(* a faulty tool map: the last tool is missing *)
tool_map_keys_short ==
    <<"chroma_list_collections", "chroma_create_collection", "chroma_peek_collection",
      "chroma_get_collection_info", "chroma_get_collection_count",
      "chroma_modify_collection", "chroma_delete_collection", "chroma_add_documents",
      "chroma_query_documents", "chroma_get_documents", "chroma_update_documents",
      "chroma_delete_documents", "chroma_list_databases", "chroma_get_current_context",
      "chroma_switch_context">>

(* the keys of tool_map in execute_tool, in its order *)
tool_map_keys ==
    <<"chroma_list_collections", "chroma_create_collection", "chroma_peek_collection",
      "chroma_get_collection_info", "chroma_get_collection_count",
      "chroma_modify_collection", "chroma_delete_collection", "chroma_add_documents",
      "chroma_query_documents", "chroma_get_documents", "chroma_update_documents",
      "chroma_delete_documents", "chroma_list_databases", "chroma_get_current_context",
      "chroma_switch_context", "chroma_list_all_collections">>

(* what a handler gives FastAPI to send: a status and the JSON content *)
GatewayResponse(status, content) == [status |-> status, content |-> content]

(* raise HTTPException(status_code, detail), as FastAPI answers it *)
HTTPException(status_code, detail) ==
    GatewayResponse(status_code, JObj(<<Item("detail", JStr(detail))>>))

(* str() of an HTTPException: "<status>: <detail>" where starlette defines *)
(* __str__, the empty string in the releases before                        *)
HTTPExceptionStr(status_code, detail, starlette) ==
    IF starlette = "str" THEN IntStr(status_code) \o ": " \o detail ELSE ""

(* execute_tool, lines 160-269: the import, the lookup in tool_map, the    *)
(* call of the tool (its outcome is the tool's), and the except that turns *)
(* every exception, the 404 included, into a 500                           *)
execute_tool(tool_name, params, outcome, starlette) ==
    LET imported == import_tools
    IN  IF ~imported.ok THEN HTTPException(500, imported.exc.text)
        ELSE IF \A i \in 1..Len(tool_map_keys) : tool_map_keys[i] # tool_name
        THEN HTTPException(500, HTTPExceptionStr(404, "Tool not found: " \o tool_name,
                                                 starlette))
        ELSE IF ~outcome.ok THEN HTTPException(500, outcome.exc.text)
        ELSE GatewayResponse(200, outcome.val)

(* get_tool_definitions, lines 276-478 *)
get_tool_definitions ==
    JArr(<<
      Tool("chroma_list_collections",
           "List all collections in ChromaDB",
           <<Item("limit", TInteger),
             Item("offset", TInteger)>>,
           <<>>),
      Tool("chroma_create_collection",
           "Create a new collection in ChromaDB",
           <<Item("collection_name", TString),
             Item("embedding_function_name", TString),
             Item("metadata", TObject)>>,
           <<JStr("collection_name")>>),
      Tool("chroma_peek_collection",
           "Peek at documents in a collection",
           <<Item("collection_name", TString),
             Item("limit", TInteger)>>,
           <<JStr("collection_name")>>),
      Tool("chroma_get_collection_info",
           "Get detailed information about a collection",
           <<Item("collection_name", TString)>>,
           <<JStr("collection_name")>>),
      Tool("chroma_get_collection_count",
           "Get the number of documents in a collection",
           <<Item("collection_name", TString)>>,
           <<JStr("collection_name")>>),
      Tool("chroma_modify_collection",
           "Modify a collection's name or metadata",
           <<Item("collection_name", TString),
             Item("new_name", TString),
             Item("new_metadata", TObject)>>,
           <<JStr("collection_name")>>),
      Tool("chroma_delete_collection",
           "Delete a collection from ChromaDB",
           <<Item("collection_name", TString)>>,
           <<JStr("collection_name")>>),
      Tool("chroma_add_documents",
           "Add documents to a collection",
           <<Item("collection_name", TString),
             Item("documents", TStrings),
             Item("ids", TStrings),
             Item("metadatas", TObjects)>>,
           <<JStr("collection_name"), JStr("documents")>>),
      Tool("chroma_query_documents",
           "Query documents in a collection",
           <<Item("collection_name", TString),
             Item("query_texts", TStrings),
             Item("n_results", TInteger),
             Item("where", TObject),
             Item("where_document", TObject),
             Item("include", TStrings)>>,
           <<JStr("collection_name"), JStr("query_texts")>>),
      Tool("chroma_get_documents",
           "Get documents from a collection",
           <<Item("collection_name", TString),
             Item("ids", TStrings),
             Item("where", TObject),
             Item("limit", TInteger),
             Item("offset", TInteger),
             Item("where_document", TObject),
             Item("include", TStrings)>>,
           <<JStr("collection_name")>>),
      Tool("chroma_update_documents",
           "Update documents in a collection",
           <<Item("collection_name", TString),
             Item("ids", TStrings),
             Item("documents", TStrings),
             Item("metadatas", TObjects)>>,
           <<JStr("collection_name"), JStr("ids")>>),
      Tool("chroma_delete_documents",
           "Delete documents from a collection",
           <<Item("collection_name", TString),
             Item("ids", TStrings)>>,
           <<JStr("collection_name"), JStr("ids")>>),
      Tool("chroma_list_databases",
           "List all databases in a tenant",
           <<Item("tenant", TString),
             Item("limit", TInteger),
             Item("offset", TInteger)>>,
           <<>>),
      Tool("chroma_get_current_context",
           "Get the current tenant and database context",
           <<>>,
           <<>>),
      Tool("chroma_switch_context",
           "Switch the current tenant and/or database context",
           <<Item("tenant", TString),
             Item("database", TString)>>,
           <<>>),
      Tool("chroma_list_all_collections",
           "List all collections across all databases in the current tenant",
           <<>>,
           <<>>)
    >>)

(* lines 112-119: the tools of server_instance._tools, a dict of tool name *)
(* to tool info, in MCP format                                             *)
registered_tools(registry) ==
    JArr([i \in 1..Len(registry.items) |->
            JObj(<<Item("name", JStr(registry.items[i].k)),
                   Item("description",
                        GetOr(registry.items[i].v, "description", JStr(""))),
                   Item("inputSchema",
                        GetOr(registry.items[i].v, "params_schema",
                              JObj(<<Item("type", JStr("object")),
                                     Item("properties", JObj(<<>>)),
                                     Item("required", JArr(<<>>))>>)))>>)])

(* lines 136-144: the JSON-RPC response, with the id only when the request *)
(* has one that is not None                                                *)
McpResult(result, request_id) ==
    GatewayResponse(200,
        Dict(<<Item("jsonrpc", JStr("2.0")),
               Item("result", result),
               Item("id", IF request_id = None THEN Absent ELSE request_id)>>))

(* lines 146-155: the except of handle_mcp_request, a JSON-RPC error sent  *)
(* with status 200                                                         *)
McpError(message, text) ==
    GatewayResponse(200,
        JObj(<<Item("jsonrpc", JStr("2.0")),
               Item("error", JObj(<<Item("code", JNum(-32603)),
                                    Item("message", JStr("Internal error: " \o text))>>)),
               Item("id", Get(message, "id"))>>))

(* an exception that leaves the handler: FastAPI's plain 500 *)
InternalServerError == GatewayResponse(500, JStr("Internal Server Error"))

(* a faulty handler: the id None is put into the response as null *)
handle_mcp_request_nullid(message, registry, starlette) ==
    IF ~IsDict(message) THEN InternalServerError
    ELSE
    LET method == Get(message, "method")
        params == GetOr(message, "params", JObj(<<>>))
        request_id == Get(message, "id")
        Envelope(result) ==
            GatewayResponse(200, JObj(<<Item("jsonrpc", JStr("2.0")),
                                        Item("result", result),
                                        Item("id", request_id)>>))
    IN  IF method = JStr("initialize")
        THEN IF ~IsDict(params)
             THEN McpError(message, NoAttribute(params, "get").exc.text)
             ELSE Envelope(
                      JObj(<<Item("protocolVersion",
                                  GetOr(params, "protocolVersion", JStr("2024-11-05"))),
                             Item("capabilities", JObj(<<Item("tools", JObj(<<>>))>>)),
                             Item("serverInfo",
                                  JObj(<<Item("name", JStr("chroma-mcp-http")),
                                         Item("version", JStr("1.0.0"))>>))>>))
        ELSE IF method = JStr("tools/list")
        THEN Envelope(JObj(<<Item("tools",
                                  IF registry = Absent THEN get_tool_definitions
                                  ELSE registered_tools(registry))>>))
        ELSE IF method = JStr("notifications/initialized")
        THEN GatewayResponse(200, JObj(<<>>))
        ELSE IF method = JStr("resources/list")
        THEN Envelope(JObj(<<Item("resources", JArr(<<>>))>>))
        ELSE IF method = JStr("prompts/list")
        THEN Envelope(JObj(<<Item("prompts", JArr(<<>>))>>))
        ELSE McpError(message,
                      HTTPExceptionStr(404,
                          "Method not found: "
                              \o (IF IsStr(method) THEN method.s ELSE "None"),
                          starlette))

(* handle_mcp_request, lines 87-155.  message is the body of the request;  *)
(* registry is server_instance._tools, Absent when the instance has no     *)
(* such attribute.  On a body that is no dict message.get raises in the    *)
(* try and again in the except, and the exception leaves the handler.      *)
handle_mcp_request(message, registry, starlette) ==
    IF ~IsDict(message) THEN InternalServerError
    ELSE
    LET method == Get(message, "method")
        params == GetOr(message, "params", JObj(<<>>))
        request_id == Get(message, "id")
    IN  IF method = JStr("initialize")
        THEN IF ~IsDict(params)
             THEN McpError(message, NoAttribute(params, "get").exc.text)
             ELSE McpResult(
                      JObj(<<Item("protocolVersion",
                                  GetOr(params, "protocolVersion", JStr("2024-11-05"))),
                             Item("capabilities", JObj(<<Item("tools", JObj(<<>>))>>)),
                             Item("serverInfo",
                                  JObj(<<Item("name", JStr("chroma-mcp-http")),
                                         Item("version", JStr("1.0.0"))>>))>>),
                      request_id)
        ELSE IF method = JStr("tools/list")
        THEN McpResult(JObj(<<Item("tools",
                                   IF registry = Absent THEN get_tool_definitions
                                   ELSE registered_tools(registry))>>),
                       request_id)
        ELSE IF method = JStr("notifications/initialized")
        THEN GatewayResponse(200, JObj(<<>>))
        ELSE IF method = JStr("resources/list")
        THEN McpResult(JObj(<<Item("resources", JArr(<<>>))>>), request_id)
        ELSE IF method = JStr("prompts/list")
        THEN McpResult(JObj(<<Item("prompts", JArr(<<>>))>>), request_id)
        ELSE McpError(message,
                      HTTPExceptionStr(404,
                          "Method not found: "
                              \o (IF IsStr(method) THEN method.s ELSE "None"),
                          starlette))

(* list_tools, lines 271-274 *)
list_tools == GatewayResponse(200, JObj(<<Item("tools", get_tool_definitions)>>))

(***************************************************************************)
(* Bounds and inputs                                                       *)
(***************************************************************************)
(* lines on stdin before end-of-stream *)
MaxLines == 2

(* requests the gateway handles in a run *)
MaxRequests == 2

Request(method, params, id) ==
    Dict(<<Item("jsonrpc", JStr("2.0")), Item("method", method),
           Item("params", params), Item("id", id)>>)

Ids == {Absent, JNull, JNum(1), JStr("a")}

Arguments == {JObj(<<>>), JObj(<<Item("collection_name", JStr("docs"))>>)}

CallParams ==
    {Absent, JNull, JArr(<<>>), JObj(<<>>)}
    \cup {Dict(<<Item("name", n)>>) :
            n \in {JStr("chroma_get_collection"), JStr("get_collection"), JStr("chroma"),
                   JStr("Chroma_get_collection"), JNum(5)}}
    \cup {Dict(<<Item("name", n), Item("arguments", a)>>) :
            n \in {JStr("chroma_get_collection"), JStr("get_collection")}, a \in Arguments}

InitParams ==
    {Absent, JNull, JArr(<<>>), JObj(<<>>),
     JObj(<<Item("protocolVersion", JStr("0.1.0")), Item("capabilities", JObj(<<>>))>>)}

OtherMethods ==
    {Absent, JStr("notifications/initialized"), JStr("resources/list"), JStr("prompts/list"),
     JStr("foo/bar")}

Requests ==
    {Request(JStr("tools/call"), p, i) : p \in CallParams, i \in Ids}
    \cup {Request(JStr("initialize"), p, i) : p \in InitParams, i \in Ids}
    \cup {Request(JStr("tools/list"), p, i) : p \in {Absent, JObj(<<>>)}, i \in Ids}
    \cup {Request(m, p, i) : m \in OtherMethods, p \in {Absent, JObj(<<>>)}, i \in Ids}

(* valid JSON that is no request object *)
NonRequests == {JNull, JArr(<<>>), JNum(5), JStr("ok")}

Lines == {BlankLine, GarbageLine} \cup {JsonLine(v) : v \in Requests \cup NonRequests}

(* the values of --remote-url: the base alone, and with trailing slashes *)
RemoteUrls == {"http://gw", "http://gw/", "http://gw//"}

(* the names of a catalog's tools *)
ToolNames(tools) == {tools.elems[i].items[1].v.s : i \in 1..Len(tools.elems)}

(* the tool names the gateway is asked for: the ones the bridge advertises *)
(* by default, the gateway's own, and two it does not know                 *)
ToolNamesAsked ==
    ToolNames(get_default_tools) \cup ToolNames(get_tool_definitions)
    \cup {"chroma_nope", "get_collection"}

(* what the tool called by execute_tool returns or raises *)
ToolOutcomes ==
    {Ok(JStr("Successfully created collection docs")),
     Ok(JObj(<<Item("count", JNum(3))>>)),
     Raise("Exception", "Failed to get collection 'docs': Collection docs does not exist.")}

(* the bodies POST /mcp is sent: requests of every method, and one body    *)
(* that is no object                                                       *)
McpMessages ==
    {Request(JStr("initialize"), p, i) : p \in InitParams, i \in Ids}
    \cup {Request(m, p, i) :
            m \in OtherMethods \cup {JStr("tools/list"), JStr("tools/call")},
            p \in {Absent, JObj(<<>>)}, i \in Ids}
    \cup {JArr(<<>>)}

(* server_instance._tools: no such attribute, or a dict of registered      *)
(* tools                                                                   *)
Registries ==
    {Absent,
     JObj(<<Item("chroma_peek_collection",
                 JObj(<<Item("description", JStr("Peek at documents in a collection"))>>))>>)}

(* starlette releases with and without HTTPException.__str__ *)
StarletteReleases == {"str", "nostr"}

(* --auth-token: not given, given empty, given *)
AuthTokens == {None, JStr(""), JStr("s3cret")}

TransportErrors ==
    {TransportError("ConnectError", "All connection attempts failed"),
     TransportError("ReadTimeout", "")}

ErrorResponses ==
    {TextResponse(st, "collection not found") : st \in {302, 404, 500}}
    \cup {Response(500, "{\"detail\":\"collection not found\"}",
                    Ok(JObj(<<Item("detail", JStr("collection not found"))>>)))}

(* bodies of a 2xx reply that parse as JSON *)
Bodies ==
    {JObj(<<>>),
     JObj(<<Item("name", JStr("docs")), Item("count", JNum(3))>>),
     JObj(<<Item("error", JStr("collection not found"))>>),
     JObj(<<Item("jsonrpc", JStr("2.0")), Item("result", JObj(<<>>)), Item("id", JNum(1))>>),
     JObj(<<Item("jsonrpc", JStr("2.0")), Item("result", JObj(<<>>))>>),
     JObj(<<Item("jsonrpc", JStr("2.0")),
            Item("error", JObj(<<Item("code", JNum(-32603)),
                                 Item("message", JStr("Internal error: "))>>)),
            Item("id", JNull)>>),
     JObj(<<Item("jsonrpc", JStr("2.0")), Item("id", JNum(2))>>),
     JArr(<<>>), JArr(<<JStr("docs"), JStr("notes")>>), JArr(<<JStr("jsonrpc")>>),
     JStr("ok"), JStr("Successfully created collection jsonrpc"), JStr("say \"hi\"\n"),
     JNum(3), JBool(TRUE), JNull}

SuccessResponses ==
    {JsonResponse(200, b) : b \in Bodies}
    \cup {JsonResponse(201, JObj(<<Item("name", JStr("docs")), Item("count", JNum(3))>>)),
          TextResponse(200, "<html>")}

(* what the gateway can answer a POST with *)
Replies == TransportErrors \cup ErrorResponses \cup SuccessResponses

ATool == Tool("chroma_peek_collection", "Peek at documents in a collection",
              <<Item("collection_name", TString), Item("limit", TInteger)>>,
              <<JStr("collection_name")>>)

(* what the gateway can answer GET /tools with *)
ToolsReplies ==
    TransportErrors
    \cup {TextResponse(500, "collection not found"), TextResponse(200, "<html>"),
          JsonResponse(200, JObj(<<Item("tools", JArr(<<ATool>>))>>)),
          JsonResponse(200, JArr(<<ATool>>)),
          JsonResponse(200, JObj(<<Item("status", JStr("ok"))>>)),
          JsonResponse(200, JStr("ok")),
          JsonResponse(200, JNull)}

(***************************************************************************)
(* The server, chroma_mcp/server.py                                        *)
(***************************************************************************)
(* chromadb.config.DEFAULT_TENANT and DEFAULT_DATABASE *)
DEFAULT_TENANT == "default_tenant"

DEFAULT_DATABASE == "default_database"

(* Python's `v or default` for an Optional[str]: None and the empty string *)
(* are both false                                                          *)
OrDefault(v, default) == IF IsStr(v) /\ v.s # "" THEN v.s ELSE default

(* a chromadb client, by the tenant and the database it is bound to *)
ChromaClient(tenant, database) == [tenant |-> tenant, database |-> database]

(* the command line: --client-type, --tenant, --database (host, data dir   *)
(* and API key are given whenever the client type needs them)              *)
Args(client_type, tenant, database) ==
    [client_type |-> client_type, tenant |-> tenant, database |-> database]

(* the module after import: no client, no context, and the database server *)
(* without collections                                                     *)
ServerStart(args) ==
    [args |-> args,
     chroma_client |-> None,
     current_tenant |-> None,
     current_database |-> None,
     store |-> [key \in {} |-> <<>>],
     call |-> [op |-> "none"],
     ncalls |-> 0]

(* the result of a tool, kept with its arguments; `obtained` says that the *)
(* tool called get_chroma_client and `built` that the call made a client;  *)
(* ncalls counts the tool calls                                            *)
Returned(before, after, op, input, outcome, obtained) ==
    [after EXCEPT !.call = [op |-> op, input |-> input, outcome |-> outcome,
                            obtained |-> obtained,
                            built |-> obtained /\ before.chroma_client = None],
                  !.ncalls = @ + 1]

(* the client get_chroma_client builds when there is none: only the http   *)
(* client takes the current context; the cloud client takes the command    *)
(* line's tenant and database; PersistentClient(path=...) and              *)
(* EphemeralClient() take chromadb's defaults                              *)
new_client(s) ==
    CASE s.args.client_type = "http" ->
            ChromaClient(OrDefault(s.current_tenant,
                                   OrDefault(s.args.tenant, DEFAULT_TENANT)),
                         OrDefault(s.current_database,
                                   OrDefault(s.args.database, DEFAULT_DATABASE)))
      [] s.args.client_type = "cloud" ->
            ChromaClient(s.args.tenant.s, s.args.database.s)
      [] OTHER -> ChromaClient(DEFAULT_TENANT, DEFAULT_DATABASE)

(* get_chroma_client: the cached client when there is one; else a new one, *)
(* and for the http client the context components that were None are set   *)
(* to what the client was built with                                       *)
get_chroma_client(s) ==
    IF s.chroma_client # None THEN s
    ELSE IF s.args.client_type = "http"
    THEN [s EXCEPT !.chroma_client = new_client(s),
                   !.current_tenant =
                       IF @ = None THEN JStr(new_client(s).tenant) ELSE @,
                   !.current_database =
                       IF @ = None THEN JStr(new_client(s).database) ELSE @]
    ELSE [s EXCEPT !.chroma_client = new_client(s)]

(* the dict chroma_get_current_context and chroma_switch_context return *)
current_context(s) ==
    [tenant |-> OrDefault(s.current_tenant, DEFAULT_TENANT),
     database |-> OrDefault(s.current_database, DEFAULT_DATABASE)]

chroma_get_current_context(s) ==
    Returned(s, s, "get_current_context", <<>>, Ok(current_context(s)), FALSE)

(* chroma_switch_context: a component that is not None is stored, the      *)
(* cached client is dropped                                                *)
chroma_switch_context(s, tenant, database) ==
    LET after == [s EXCEPT !.current_tenant = IF tenant # None THEN tenant ELSE @,
                           !.current_database =
                               IF database # None THEN database ELSE @,
                           !.chroma_client = None]
    IN  Returned(s, after, "switch_context",
                 [tenant |-> tenant, database |-> database],
                 Ok(current_context(after)), FALSE)

(* str.strip() *)
RECURSIVE Strip(_)
Strip(s) ==
    IF s # "" /\ SubSeq(s, 1, 1) = " " THEN Strip(SubSeq(s, 2, Len(s)))
    ELSE IF s # "" /\ SubSeq(s, Len(s), Len(s)) = " "
    THEN Strip(SubSeq(s, 1, Len(s) - 1))
    ELSE s

(* repr of a list of str, as an f-string renders it *)
RECURSIVE ListItems(_)
ListItems(ids) ==
    IF ids = <<>> THEN ""
    ELSE "'" \o Head(ids) \o "'"
         \o (IF Len(ids) > 1 THEN ", " ELSE "") \o ListItems(Tail(ids))

ListRepr(ids) == "[" \o ListItems(ids) \o "]"

(* normalize_error_message *)
normalize_error_message(exc) ==
    IF exc.text # "" THEN exc.text ELSE exc.type \o ": Unknown error occurred"

(* a collection of the database server: of this tenant and database, with  *)
(* this name                                                               *)
CollectionKey(chroma_client, name) ==
    [tenant |-> chroma_client.tenant, database |-> chroma_client.database,
     name |-> name]

(* client.get_or_create_collection: the store with the collection in it *)
get_or_create_collection(store, key) ==
    IF key \in DOMAIN store THEN store ELSE (key :> <<>>) @@ store

(* collection.get(include=[])["ids"] *)
collection_ids(records) == [i \in 1..Len(records) |-> records[i].id]

Elements(seq) == {seq[i] : i \in 1..Len(seq)}

Repeats(ids) == \E i, j \in 1..Len(ids) : i # j /\ ids[i] = ids[j]

(* the records of a call: one for every id, with its document *)
NewRecords(ids, documents) ==
    [i \in 1..Len(ids) |-> [id |-> ids[i], document |-> documents[i]]]

(* chromadb's Collection.add: the ids of one call are validated to be      *)
(* unique and the lists to be of equal length; records whose id the        *)
(* collection already has are left as they are; returns None               *)
collection_add(records, documents, metadatas, ids) ==
    IF Repeats(ids)
    THEN Raise("DuplicateIDError", "Expected IDs to be unique, found duplicates")
    ELSE IF metadatas # None /\ Len(metadatas.elems) # Len(ids)
    THEN Raise("ValueError", "Unequal lengths for fields: ids, metadatas")
    ELSE Ok(records \o SelectSeq(NewRecords(ids, documents),
                                 LAMBDA r : r.id \notin Elements(collection_ids(records))))

(* chromadb's Collection.update: the records whose id is given get the new *)
(* document; ids the collection has not are ignored                        *)
collection_update(records, ids, documents) ==
    IF Repeats(ids)
    THEN Raise("DuplicateIDError", "Expected IDs to be unique, found duplicates")
    ELSE Ok([i \in 1..Len(records) |->
                IF documents # None
                   /\ \E j \in 1..Len(ids) : ids[j] = records[i].id
                THEN [records[i] EXCEPT !.document =
                         documents.elems[CHOOSE j \in 1..Len(ids) :
                                             ids[j] = records[i].id].s]
                ELSE records[i]])

AddInput(collection_name, documents, ids, metadatas) ==
    [collection_name |-> collection_name, documents |-> documents, ids |-> ids,
     metadatas |-> metadatas]

FailedToAdd(collection_name, exc) ==
    Raise("Exception", "Failed to add documents to collection '" \o collection_name
                       \o "': " \o normalize_error_message(exc))

AlreadyExist(collection_name, duplicate_ids) ==
    [type |-> "ValueError",
     text |-> "The following IDs already exist in collection '" \o collection_name
              \o "': " \o ListRepr(duplicate_ids)
              \o ". Use 'chroma_update_documents' to update existing documents."]

(* a faulty chroma_add_documents: the ids are not compared with the ones   *)
(* the collection has                                                      *)
chroma_add_documents_nocheck(s, collection_name, documents, ids, metadatas) ==
    LET input == AddInput(collection_name, documents, ids, metadatas)
    IN  IF documents = <<>>
        THEN Returned(s, s, "add_documents", input,
                      Raise("ValueError", "The 'documents' list cannot be empty."), FALSE)
        ELSE IF ids = <<>>
        THEN Returned(s, s, "add_documents", input,
                      Raise("ValueError", "The 'ids' list is required and cannot be empty."),
                      FALSE)
        ELSE IF \E i \in 1..Len(ids) : Strip(ids[i]) = ""
        THEN Returned(s, s, "add_documents", input,
                      Raise("ValueError", "IDs cannot be empty strings."), FALSE)
        ELSE IF Len(ids) # Len(documents)
        THEN Returned(s, s, "add_documents", input,
                      Raise("ValueError",
                            "Number of ids (" \o IntStr(Len(ids))
                            \o ") must match number of documents ("
                            \o IntStr(Len(documents)) \o ")."), FALSE)
        ELSE LET got == get_chroma_client(s)
                 key == CollectionKey(got.chroma_client, collection_name)
                 created == get_or_create_collection(got.store, key)
                 result == collection_add(created[key], documents, metadatas, ids)
             IN  IF ~result.ok
                 THEN Returned(s, [got EXCEPT !.store = created], "add_documents",
                               input, FailedToAdd(collection_name, result.exc), TRUE)
                 ELSE Returned(s, [got EXCEPT !.store =
                                      [created EXCEPT ![key] = result.val]],
                               "add_documents", input,
                               Ok("Successfully added " \o IntStr(Len(documents))
                                  \o " documents to collection " \o collection_name
                                  \o ", result is None"), TRUE)

(* chroma_add_documents: the four checks of the arguments, then the        *)
(* client, the collection (created when it is not there), the ids the      *)
(* collection has, and collection.add; every exception from the client on  *)
(* is raised again as Exception("Failed to add documents ...")             *)
chroma_add_documents(s, collection_name, documents, ids, metadatas) ==
    LET input == AddInput(collection_name, documents, ids, metadatas)
    IN  IF documents = <<>>
        THEN Returned(s, s, "add_documents", input,
                      Raise("ValueError", "The 'documents' list cannot be empty."), FALSE)
        ELSE IF ids = <<>>
        THEN Returned(s, s, "add_documents", input,
                      Raise("ValueError", "The 'ids' list is required and cannot be empty."),
                      FALSE)
        ELSE IF \E i \in 1..Len(ids) : Strip(ids[i]) = ""
        THEN Returned(s, s, "add_documents", input,
                      Raise("ValueError", "IDs cannot be empty strings."), FALSE)
        ELSE IF Len(ids) # Len(documents)
        THEN Returned(s, s, "add_documents", input,
                      Raise("ValueError",
                            "Number of ids (" \o IntStr(Len(ids))
                            \o ") must match number of documents ("
                            \o IntStr(Len(documents)) \o ")."), FALSE)
        ELSE LET got == get_chroma_client(s)
                 key == CollectionKey(got.chroma_client, collection_name)
                 created == get_or_create_collection(got.store, key)
                 existing_ids == Elements(collection_ids(created[key]))
                 duplicate_ids == SelectSeq(ids, LAMBDA id : id \in existing_ids)
                 result == collection_add(created[key], documents, metadatas, ids)
             IN  IF duplicate_ids # <<>>
                 THEN Returned(s, [got EXCEPT !.store = created], "add_documents",
                               input,
                               FailedToAdd(collection_name,
                                           AlreadyExist(collection_name, duplicate_ids)),
                               TRUE)
                 ELSE IF ~result.ok
                 THEN Returned(s, [got EXCEPT !.store = created], "add_documents",
                               input, FailedToAdd(collection_name, result.exc), TRUE)
                 ELSE Returned(s, [got EXCEPT !.store =
                                      [created EXCEPT ![key] = result.val]],
                               "add_documents", input,
                               Ok("Successfully added " \o IntStr(Len(documents))
                                  \o " documents to collection " \o collection_name
                                  \o ", result is None"), TRUE)

UpdateInput(collection_name, ids, embeddings, metadatas, documents) ==
    [collection_name |-> collection_name, ids |-> ids, embeddings |-> embeddings,
     metadatas |-> metadatas, documents |-> documents]

(* chroma_update_documents: the checks of the arguments, then the client,  *)
(* the collection (which must exist) and collection.update                 *)
chroma_update_documents(s, collection_name, ids, embeddings, metadatas, documents) ==
    LET input == UpdateInput(collection_name, ids, embeddings, metadatas, documents)
    IN  IF ids = <<>>
        THEN Returned(s, s, "update_documents", input,
                      Raise("ValueError", "The 'ids' list cannot be empty."), FALSE)
        ELSE IF embeddings = None /\ metadatas = None /\ documents = None
        THEN Returned(s, s, "update_documents", input,
                      Raise("ValueError",
                            "At least one of 'embeddings', 'metadatas', or 'documents' "
                            \o "must be provided for update."), FALSE)
        ELSE IF embeddings # None /\ Len(embeddings.elems) # Len(ids)
        THEN Returned(s, s, "update_documents", input,
                      Raise("ValueError",
                            "Length of 'embeddings' list must match length of 'ids' list."),
                      FALSE)
        ELSE IF metadatas # None /\ Len(metadatas.elems) # Len(ids)
        THEN Returned(s, s, "update_documents", input,
                      Raise("ValueError",
                            "Length of 'metadatas' list must match length of 'ids' list."),
                      FALSE)
        ELSE IF documents # None /\ Len(documents.elems) # Len(ids)
        THEN Returned(s, s, "update_documents", input,
                      Raise("ValueError",
                            "Length of 'documents' list must match length of 'ids' list."),
                      FALSE)
        ELSE LET got == get_chroma_client(s)
                 key == CollectionKey(got.chroma_client, collection_name)
             IN  IF key \notin DOMAIN got.store
                 THEN Returned(s, got, "update_documents", input,
                               Raise("Exception",
                                     "Failed to get collection '" \o collection_name
                                     \o "': Collection " \o collection_name
                                     \o " does not exist."), TRUE)
                 ELSE LET result == collection_update(got.store[key], ids, documents)
                      IN  IF ~result.ok
                          THEN Returned(s, got, "update_documents", input,
                                        Raise("Exception",
                                              "Failed to update documents in collection '"
                                              \o collection_name \o "': "
                                              \o normalize_error_message(result.exc)),
                                        TRUE)
                          ELSE Returned(s, [got EXCEPT !.store[key] = result.val],
                                        "update_documents", input,
                                        Ok("Successfully processed update request for "
                                           \o IntStr(Len(ids)) \o " documents in collection '"
                                           \o collection_name
                                           \o "'. Note: Non-existent IDs are ignored by ChromaDB."),
                                        TRUE)

(* the tool calls of one run of the server *)
MaxCalls == 3

(* the command lines the server is started with *)
ServerArgs ==
    {Args("ephemeral", None, None),
     Args("persistent", None, None),
     Args("http", None, None),
     Args("http", JStr("t1"), JStr("d1")),
     Args("cloud", JStr("t1"), JStr("d1"))}

(* the arguments of chroma_switch_context *)
SwitchTenants == {None, JStr(""), JStr("t2")}

SwitchDatabases == {None, JStr("d2")}

(* the arguments of chroma_add_documents and chroma_update_documents *)
CollectionNames == {"c"}

AddDocuments_documents == {<<>>, <<"x">>, <<"x", "x">>}

AddDocuments_ids == {<<>>, <<" ">>, <<"a">>, <<"b">>, <<"a", "a">>, <<"a", "b">>}

AMetadata == JObj(<<Item("k", JStr("v"))>>)

(* an Optional list is None or a list *)
AddDocuments_metadatas == {None, JArr(<<AMetadata, AMetadata>>)}

UpdateDocuments_ids == {<<>>, <<"b">>, <<"a", "b">>}

UpdateDocuments_documents == {None, JArr(<<JStr("y")>>), JArr(<<JStr("y"), JStr("y")>>)}

UpdateDocuments_metadatas == {None, JArr(<<AMetadata>>)}

UpdateDocuments_embeddings == {None, JArr(<<JArr(<<JNum(1)>>)>>)}

(***************************************************************************)
(* State                                                                   *)
(***************************************************************************)
VARIABLES
    pc,          \* where the process is: start, read, dispatch, forward, tools, exit, closed
    args_remote_url, \* args.remote_url: the --remote-url of the command line
    remote_url,  \* self.remote_url
    auth_token,  \* self.auth_token: None or the string given with --auth-token
    headers,     \* the headers self.client sends with every request, None before start
    client,      \* self.client: none, open, closed
    line,        \* the line the last readline returned
    message,     \* the local `message` of _process_messages
    http,        \* the HTTP request issued for `message`, NoRequest when none
    reply,       \* the gateway's answer to `http`, NoReply when none
    out,         \* the message written to stdout for `message`, NoLine when none
    nread,       \* lines read from stdin so far (end-of-stream not counted)
    events,      \* history: reads, HTTP requests (with their URL) and stdout writes,
                 \* each with the number and the id of the line it belongs to
    gw,          \* the gateway (http_server.py): the last request it handled, its
                 \* response, and the paths it has served
    srv          \* the server (server.py): its command line, its globals
                 \* _chroma_client, _current_tenant and _current_database, the
                 \* collections of the database server, and the last tool call

vars == <<pc, args_remote_url, remote_url, auth_token, headers, client, line, message, http, reply, out, nread, events,
          gw, srv>>

NoLine == [kind |-> "noline"]

NoReply == [t |-> "none"]

(* the gateway before its first request *)
GatewayIdle == [request |-> NoRequest, response |-> NoReply, log |-> <<>>]

(* the id of a message, None when it has none or is no dict *)
MessageId(m) == IF IsDict(m) THEN Get(m, "id") ELSE None

Event(e, n, id, url) == [e |-> e, n |-> n, id |-> id, url |-> url]

(* a faulty header set: the Authorization header is added for every token, *)
(* the empty one included                                                  *)
get_headers_always(token) ==
    JObj(<<Item("Content-Type", JStr("application/json")),
           Item("Accept", JStr("application/json")),
           Item("Authorization",
                JStr("Bearer " \o (IF IsStr(token) THEN token.s ELSE "None")))>>)

(* MCPChromaBridge._get_headers: `if self.auth_token` is false for None    *)
(* and for the empty string                                                *)
get_headers(token) ==
    IF IsStr(token) /\ token.s # ""
    THEN JObj(<<Item("Content-Type", JStr("application/json")),
                Item("Accept", JStr("application/json")),
                Item("Authorization", JStr("Bearer " \o token.s))>>)
    ELSE JObj(<<Item("Content-Type", JStr("application/json")),
                Item("Accept", JStr("application/json"))>>)

(* a faulty constructor: the remote URL is kept as it is given *)
Construct_asgiven(url, token) ==
    /\ pc = "start"
    /\ args_remote_url = url
    /\ remote_url = url
    /\ auth_token = token
    /\ headers = None
    /\ client = "none"
    /\ line = EndOfStream
    /\ message = None
    /\ http = NoRequest
    /\ reply = NoReply
    /\ out = NoLine
    /\ nread = 0
    /\ events = <<>>
    /\ gw = GatewayIdle
    /\ srv = ServerStart(Args("ephemeral", None, None))

(* MCPChromaBridge.__init__(remote_url, auth_token) *)
Construct(url, token) ==
    /\ pc = "start"
    /\ args_remote_url = url
    /\ remote_url = RStrip(url)
    /\ auth_token = token
    /\ headers = None
    /\ client = "none"
    /\ line = EndOfStream
    /\ message = None
    /\ http = NoRequest
    /\ reply = NoReply
    /\ out = NoLine
    /\ nread = 0
    /\ events = <<>>
    /\ gw = GatewayIdle
    /\ srv = ServerStart(Args("ephemeral", None, None))

(* main with --remote-url http://gw/ and without --auth-token:             *)
(* args.auth_token is None                                                 *)
Init == Construct("http://gw/", None)

(* main with any of the tokens --auth-token can give *)
InitWithToken == \E token \in AuthTokens : Construct("http://gw/", token)

(* main with any of the remote URLs --remote-url can give *)
InitWithUrl == \E url \in RemoteUrls : Construct(url, None)

(* MCPChromaBridge.start: the client is created with the headers of        *)
(* _get_headers, the loop is entered                                       *)
Start ==
    /\ pc = "start"
    /\ client' = "open"
    /\ headers' = get_headers(auth_token)
    /\ pc' = "read"
    /\ UNCHANGED <<gw, srv, args_remote_url, remote_url, auth_token, line, message, http, reply, out, nread, events>>

(* _send_message(response): one line on stdout *)
Send(response) ==
    /\ out' = response
    /\ events' = Append(events, Event("write", nread, MessageId(message), ""))

(* a faulty read: end-of-stream is answered with a parse error line *)
ReadMessage_eoferror ==
    /\ pc = "read"
    /\ \E l \in Lines \cup {EndOfStream} :
        /\ l # EndOfStream => nread < MaxLines
        /\ line' = l
        /\ message' = read_message(l)
        /\ nread' = IF l = EndOfStream THEN nread ELSE nread + 1
        /\ events' = IF l = EndOfStream
                     THEN Append(events, Event("write", nread, None, ""))
                     ELSE Append(events, Event("read", nread + 1, MessageId(read_message(l)), ""))
        /\ out' = IF l = EndOfStream
                  THEN JObj(<<Item("jsonrpc", JStr("2.0")),
                              Item("error", JObj(<<Item("code", JNum(-32700)),
                                                   Item("message", JStr("Parse error"))>>)),
                              Item("id", None)>>)
                  ELSE NoLine
        /\ pc' = IF read_message(l) = None THEN "exit" ELSE "dispatch"
    /\ http' = NoRequest
    /\ reply' = NoReply
    /\ UNCHANGED <<gw, srv, args_remote_url, remote_url, auth_token, headers, client>>

(* lines 166-169: read a line; leave the loop when _read_message gives None *)
ReadMessage ==
    /\ pc = "read"
    /\ \E l \in Lines \cup {EndOfStream} :
        /\ l # EndOfStream => nread < MaxLines
        /\ line' = l
        /\ message' = read_message(l)
        /\ nread' = IF l = EndOfStream THEN nread ELSE nread + 1
        /\ events' = IF l = EndOfStream THEN events
                     ELSE Append(events, Event("read", nread + 1, MessageId(read_message(l)), ""))
        /\ pc' = IF read_message(l) = None THEN "exit" ELSE "dispatch"
    /\ http' = NoRequest
    /\ reply' = NoReply
    /\ out' = NoLine
    /\ UNCHANGED <<gw, srv, args_remote_url, remote_url, auth_token, headers, client>>

(* message.get("method") on a message that is no dict raises; the except   *)
(* of line 203 ends the loop                                               *)
ProcessNonDict ==
    /\ pc = "dispatch"
    /\ ~IsDict(message)
    /\ pc' = "exit"
    /\ UNCHANGED <<gw, srv, args_remote_url, remote_url, auth_token, headers, client, line, message, http, reply, out, nread, events>>

(* a faulty initialize step: the request is also posted to the gateway     *)
ProcessInitialize_remote ==
    /\ pc = "dispatch"
    /\ IsDict(message)
    /\ Get(message, "method") = JStr("initialize")
    /\ http' = Post(remote_url \o "/mcp", message)
    /\ LET version == protocol_version(message)
       IN  IF version.ok
           THEN /\ Send(InitializeResult(message, version.val))
                /\ pc' = "read"
           ELSE /\ pc' = "exit"
                /\ UNCHANGED <<out, events>>
    /\ UNCHANGED <<gw, srv, args_remote_url, remote_url, auth_token, headers, client, line, message, reply, nread>>

(* lines 174-190 *)
ProcessInitialize ==
    /\ pc = "dispatch"
    /\ IsDict(message)
    /\ Get(message, "method") = JStr("initialize")
    /\ LET version == protocol_version(message)
       IN  IF version.ok
           THEN /\ Send(InitializeResult(message, version.val))
                /\ pc' = "read"
           ELSE /\ pc' = "exit"
                /\ UNCHANGED <<out, events>>
    /\ UNCHANGED <<gw, srv, args_remote_url, remote_url, auth_token, headers, client, line, message, http, reply, nread>>

(* a faulty tools/list step: GET /tools is issued and not awaited, the loop *)
(* goes back to reading                                                    *)
ProcessToolsList_noawait ==
    /\ pc = "dispatch"
    /\ IsDict(message)
    /\ Get(message, "method") # JStr("initialize")
    /\ Get(message, "method") = JStr("tools/list")
    /\ http' = HttpGet(remote_url \o "/tools")
    /\ events' = Append(events, Event("http", nread, MessageId(message),
                                      remote_url \o "/tools"))
    /\ pc' = "read"
    /\ UNCHANGED <<gw, srv, args_remote_url, remote_url, auth_token, headers, client, line, message, reply, out, nread>>

(* lines 191-193, up to the await of self.client.get *)
ProcessToolsList ==
    /\ pc = "dispatch"
    /\ IsDict(message)
    /\ Get(message, "method") # JStr("initialize")
    /\ Get(message, "method") = JStr("tools/list")
    /\ http' = HttpGet(remote_url \o "/tools")
    /\ events' = Append(events, Event("http", nread, MessageId(message),
                                      remote_url \o "/tools"))
    /\ pc' = "tools"
    /\ UNCHANGED <<gw, srv, args_remote_url, remote_url, auth_token, headers, client, line, message, reply, out, nread>>

(* lines 193-198, from the return of self.client.get *)
ToolsReply ==
    /\ pc = "tools"
    /\ \E r \in ToolsReplies :
        /\ reply' = r
        /\ Send(ToolsListResult(message, get_remote_tools(r)))
    /\ pc' = "read"
    /\ UNCHANGED <<gw, srv, args_remote_url, remote_url, auth_token, headers, client, line, message, http, nread>>

(* a faulty forward step: the request is issued and its response is not    *)
(* awaited, the loop goes straight back to reading                         *)
ProcessForward_noawait ==
    /\ pc = "dispatch"
    /\ IsDict(message)
    /\ Get(message, "method") # JStr("initialize")
    /\ Get(message, "method") # JStr("tools/list")
    /\ LET step == forward_request(message, remote_url)
       IN  IF step.t = "send"
           THEN /\ http' = step.req
                /\ events' = Append(events, Event("http", nread, MessageId(message),
                                                  step.req.url))
                /\ pc' = "read"
                /\ UNCHANGED out
           ELSE /\ Send(step.val)
                /\ pc' = "read"
                /\ UNCHANGED http
    /\ UNCHANGED <<gw, srv, args_remote_url, remote_url, auth_token, headers, client, line, message, reply, nread>>

(* a faulty forward step: the exception of a tools/call whose params are   *)
(* no dict is not caught in _forward_to_remote and ends the loop           *)
ProcessForward_uncaught ==
    /\ pc = "dispatch"
    /\ IsDict(message)
    /\ Get(message, "method") # JStr("initialize")
    /\ Get(message, "method") # JStr("tools/list")
    /\ LET step == forward_request(message, remote_url)
       IN  IF step.t = "send"
           THEN /\ http' = step.req
                /\ events' = Append(events, Event("http", nread, MessageId(message),
                                                  step.req.url))
                /\ pc' = "forward"
                /\ UNCHANGED out
           ELSE IF Get(message, "method") = JStr("tools/call")
                   /\ ~IsDict(GetOr(message, "params", None))
           THEN /\ pc' = "exit"
                /\ UNCHANGED <<http, out, events>>
           ELSE /\ Send(step.val)
                /\ pc' = "read"
                /\ UNCHANGED http
    /\ UNCHANGED <<gw, srv, args_remote_url, remote_url, auth_token, headers, client, line, message, reply, nread>>

(* lines 199-202, up to the await of self.client.post, or to the send when *)
(* _forward_to_remote returns without a request                            *)
ProcessForward ==
    /\ pc = "dispatch"
    /\ IsDict(message)
    /\ Get(message, "method") # JStr("initialize")
    /\ Get(message, "method") # JStr("tools/list")
    /\ LET step == forward_request(message, remote_url)
       IN  IF step.t = "send"
           THEN /\ http' = step.req
                /\ events' = Append(events, Event("http", nread, MessageId(message),
                                                  step.req.url))
                /\ pc' = "forward"
                /\ UNCHANGED out
           ELSE /\ Send(step.val)
                /\ pc' = "read"
                /\ UNCHANGED http
    /\ UNCHANGED <<gw, srv, args_remote_url, remote_url, auth_token, headers, client, line, message, reply, nread>>

(* a faulty reply step: an exception of self.client.post is not caught in  *)
(* _forward_to_remote, reaches the except of line 203 and ends the loop    *)
ForwardReply_uncaught ==
    /\ pc = "forward"
    /\ \E r \in Replies :
        /\ reply' = r
        /\ IF r.t = "exc"
           THEN /\ pc' = "exit"
                /\ UNCHANGED <<out, events>>
           ELSE /\ Send(forward_response(message, r))
                /\ pc' = "read"
    /\ UNCHANGED <<gw, srv, args_remote_url, remote_url, auth_token, headers, client, line, message, http, nread>>

(* lines 112-160 and 202, from the return of self.client.post *)
ForwardReply ==
    /\ pc = "forward"
    /\ \E r \in Replies :
        /\ reply' = r
        /\ Send(forward_response(message, r))
    /\ pc' = "read"
    /\ UNCHANGED <<gw, srv, args_remote_url, remote_url, auth_token, headers, client, line, message, http, nread>>

(* a faulty cleanup: the client is left open *)
Cleanup_leak ==
    /\ pc = "exit"
    /\ pc' = "closed"
    /\ UNCHANGED <<gw, srv, args_remote_url, remote_url, auth_token, headers, client, line, message, http, reply, out, nread, events>>

(* main, line 358: bridge.cleanup() closes the client *)
Cleanup ==
    /\ pc = "exit"
    /\ client' = IF client = "open" THEN "closed" ELSE client
    /\ pc' = "closed"
    /\ UNCHANGED <<gw, srv, args_remote_url, remote_url, auth_token, headers, line, message, http, reply, out, nread,
                   events>>

Next ==
    \/ Start
    \/ ReadMessage
    \/ ProcessNonDict
    \/ ProcessInitialize
    \/ ProcessToolsList
    \/ ToolsReply
    \/ ProcessForward
    \/ ForwardReply
    \/ Cleanup

Spec == Init /\ [][Next]_vars

(* main, lines 352-358: a KeyboardInterrupt (Ctrl-C) while start() has not *)
(* returned unwinds it, with the locals of the loop, to the except and the *)
(* finally of main                                                         *)
Interrupt ==
    /\ pc \in {"start", "read", "dispatch", "forward", "tools"}
    /\ pc' = "exit"
    /\ message' = None
    /\ http' = NoRequest
    /\ reply' = NoReply
    /\ out' = NoLine
    /\ UNCHANGED <<gw, srv, args_remote_url, remote_url, auth_token, headers, client, line, nread, events>>

NextOrInterrupt == Next \/ Interrupt

(* the bridge with the interrupts of its user *)
InterruptSpec == Init /\ [][NextOrInterrupt]_vars

(* the bridge started with any auth token *)
TokenSpec == InitWithToken /\ [][Next]_vars

(* the bridge started with any of the remote URLs *)
UrlSpec == InitWithUrl /\ [][Next]_vars

(***************************************************************************)
(* The gateway's handlers                                                  *)
(***************************************************************************)
bridge_vars ==
    <<pc, args_remote_url, remote_url, auth_token, headers, client, line, message, http, reply, out, nread,
      events>>

(* the gateway after one more request: the request, its response, and its *)
(* path added to the ones served                                           *)
Served(request, response) ==
    [request |-> request, response |-> response, log |-> Append(gw.log, request.url)]

(* POST /tools/{tool_name} *)
ExecuteTool ==
    /\ Len(gw.log) < MaxRequests
    /\ \E tool_name \in ToolNamesAsked, params \in Arguments,
          outcome \in ToolOutcomes, starlette \in StarletteReleases :
           gw' = Served(Post("/tools/" \o tool_name, params),
                        execute_tool(tool_name, params, outcome, starlette))
    /\ UNCHANGED <<bridge_vars, srv>>

(* GET /tools *)
ListTools ==
    /\ Len(gw.log) < MaxRequests
    /\ gw' = Served(HttpGet("/tools"), list_tools)
    /\ UNCHANGED <<bridge_vars, srv>>

(* POST /mcp *)
HandleMcpRequest ==
    /\ Len(gw.log) < MaxRequests
    /\ \E body \in McpMessages, registry \in Registries,
          starlette \in StarletteReleases :
           gw' = Served(Post("/mcp", body),
                        handle_mcp_request(body, registry, starlette))
    /\ UNCHANGED <<bridge_vars, srv>>

GatewayNext ==
    \/ ExecuteTool
    \/ ListTools
    \/ HandleMcpRequest

(* the gateway alone, asked by any client *)
GatewaySpec == Init /\ [][GatewayNext]_vars

(***************************************************************************)
(* The server's tools                                                      *)
(***************************************************************************)
(* chroma_switch_context(tenant, database) *)
SwitchContext ==
    /\ srv.ncalls < MaxCalls
    /\ \E tenant \in SwitchTenants, database \in SwitchDatabases :
           srv' = chroma_switch_context(srv, tenant, database)
    /\ UNCHANGED <<bridge_vars, gw>>

(* chroma_get_current_context() *)
GetCurrentContext ==
    /\ srv.ncalls < MaxCalls
    /\ srv' = chroma_get_current_context(srv)
    /\ UNCHANGED <<bridge_vars, gw>>

(* chroma_add_documents(collection_name, documents, ids, metadatas) *)
AddDocuments ==
    /\ srv.ncalls < MaxCalls
    /\ \E collection_name \in CollectionNames, documents \in AddDocuments_documents,
          ids \in AddDocuments_ids, metadatas \in AddDocuments_metadatas :
           srv' = chroma_add_documents(srv, collection_name, documents, ids, metadatas)
    /\ UNCHANGED <<bridge_vars, gw>>

(* chroma_update_documents(collection_name, ids, embeddings, metadatas,    *)
(* documents)                                                              *)
UpdateDocuments ==
    /\ srv.ncalls < MaxCalls
    /\ \E collection_name \in CollectionNames, ids \in UpdateDocuments_ids,
          embeddings \in UpdateDocuments_embeddings,
          metadatas \in UpdateDocuments_metadatas,
          documents \in UpdateDocuments_documents :
           srv' = chroma_update_documents(srv, collection_name, ids, embeddings,
                                          metadatas, documents)
    /\ UNCHANGED <<bridge_vars, gw>>

ServerNext ==
    \/ SwitchContext
    \/ GetCurrentContext
    \/ AddDocuments
    \/ UpdateDocuments

(* the server started with any of the command lines; the bridge and the   *)
(* gateway are as constructed                                              *)
ServerInit ==
    \E args \in ServerArgs :
        /\ pc = "start"
        /\ args_remote_url = "http://gw"
        /\ remote_url = "http://gw"
        /\ auth_token = None
        /\ headers = None
        /\ client = "none"
        /\ line = EndOfStream
        /\ message = None
        /\ http = NoRequest
        /\ reply = NoReply
        /\ out = NoLine
        /\ nread = 0
        /\ events = <<>>
        /\ gw = GatewayIdle
        /\ srv = ServerStart(args)

(* the server alone, its tools called in any order with any arguments *)
ServerSpec == ServerInit /\ [][ServerNext]_vars

(* Every step but the blocking readline is taken once it can be: the event *)
(* loop runs the coroutine on, an awaited HTTP call returns or raises      *)
(* within the client's timeout (httpx.Timeout(30.0), line 40), and the     *)
(* finally of main runs cleanup once start has returned.                   *)
Progress ==
    \/ ProcessNonDict
    \/ ProcessInitialize
    \/ ProcessToolsList
    \/ ToolsReply
    \/ ProcessForward
    \/ ForwardReply
    \/ Cleanup

FairSpec == Spec /\ WF_vars(Progress)

(***************************************************************************)
(* Properties                                                              *)
(***************************************************************************)
(* v[key] when v is a dict with that key, Absent otherwise *)
Member(v, key) == IF IsDict(v) /\ HasKey(v, key) THEN Lookup(v, key) ELSE Absent

(* the current message is a request with this method *)
IsCall(method) == IsDict(message) /\ Member(message, "method") = JStr(method)

(* the name of the tool a tools/call message asks for, Absent when its     *)
(* params hold none                                                        *)
ToolName == Member(Member(message, "params"), "name")

(* the name starts with the seven characters chroma_ *)
HasChromaPrefix(name) == Len(name) >= 7 /\ SubSeq(name, 1, 7) = "chroma_"

(* the HTTP requests issued for line n *)
HttpCalls(n) == {i \in 1..Len(events) : events[i].e = "http" /\ events[i].n = n}

(* the lines written to stdout for line n *)
Writes(n) == {i \in 1..Len(events) : events[i].e = "write" /\ events[i].n = n}

(* the current message has been handled: the loop is past its dispatch     *)
Handled == pc \in {"read", "exit", "closed"} /\ IsDict(message)

(* C1: a line that fails to parse as JSON writes nothing to stdout and     *)
(* leaves the bridge alive, in its read loop, for the lines that follow.   *)
C1_MalformedLineKeepsBridgeAlive ==
    (line # EndOfStream /\ ~json_loads(line).ok) => (out = NoLine /\ pc = "read")

(* C2: on every dispatch path and for every gateway reply, the response    *)
(* written to stdout carries an id equal to the id of the request.         *)
C2_ResponseCarriesRequestId ==
    out # NoLine => (IsDict(out) /\ HasKey(out, "id")
                     /\ Lookup(out, "id") = Get(message, "id"))

(* C3: the response to request k is written before request k+1 is read and *)
(* before any HTTP request for request k+1 is issued.                      *)
C3_ResponseBeforeNextRequest ==
    \A i \in 1..Len(events) :
        (events[i].e \in {"read", "http"} /\ events[i].n > 1)
        => \E j \in 1..(i - 1) : events[j].e = "write" /\ events[j].n = events[i].n - 1

(* two tools/call requests with ids 1 and "a", each forwarded and answered *)
C3_Witness ==
    /\ IsCall("tools/call")
    /\ events =
         <<Event("read", 1, JNum(1), ""),
           Event("http", 1, JNum(1), remote_url \o "/tools/chroma_get_collection"),
           Event("write", 1, JNum(1), ""),
           Event("read", 2, JStr("a"), ""),
           Event("http", 2, JStr("a"), remote_url \o "/tools/chroma_get_collection"),
           Event("write", 2, JStr("a"), "")>>

(* C4: a notifications/initialized message, which carries no id, gets no   *)
(* response on stdout and causes no HTTP request to the gateway.           *)
C4_NotificationGetsNoResponse ==
    (IsCall("notifications/initialized") /\ ~HasKey(message, "id"))
    => (out = NoLine /\ http = NoRequest)

(* C5: a tools/call whose params.name is a string that does not start with *)
(* chroma_ is answered by a JSON-RPC error with code -32601 and the        *)
(* request's id, and no HTTP request is sent for it.                       *)
C5_UnknownToolIsRejectedLocally ==
    (Handled /\ IsCall("tools/call") /\ IsStr(ToolName) /\ ~HasChromaPrefix(ToolName.s))
    => /\ Member(Member(out, "error"), "code") = JNum(-32601)
       /\ Member(out, "result") = Absent
       /\ Member(out, "id") = Get(message, "id")
       /\ http = NoRequest
       /\ HttpCalls(nread) = {}

(* a tools/call for the tool "chroma", one character short of the prefix,  *)
(* has been rejected                                                       *)
C5_Witness ==
    /\ Handled /\ IsCall("tools/call")
    /\ ToolName = JStr("chroma")
    /\ Member(message, "id") = JNum(1)
    /\ out # NoLine

(* C6: a tools/call whose params.name starts with chroma_ causes exactly   *)
(* one HTTP request: a POST to <remote-base>/tools/<name> whose JSON body  *)
(* is params.arguments, the empty object when arguments is absent.         *)
C6_ToolCallIsOnePost ==
    (pc # "dispatch" /\ IsCall("tools/call") /\ IsStr(ToolName)
     /\ HasChromaPrefix(ToolName.s))
    => /\ http.verb = "POST"
       /\ http.url = remote_url \o "/tools/" \o ToolName.s
       /\ http.json = (IF Member(Member(message, "params"), "arguments") = Absent
                       THEN JObj(<<>>)
                       ELSE Member(Member(message, "params"), "arguments"))
       /\ Cardinality(HttpCalls(nread)) = 1

(* a chroma_get_collection call with arguments has been answered *)
C6_Witness ==
    /\ pc = "read" /\ IsCall("tools/call")
    /\ ToolName = JStr("chroma_get_collection")
    /\ Member(Member(message, "params"), "arguments")
         = JObj(<<Item("collection_name", JStr("docs"))>>)
    /\ out # NoLine

(* the gateway answered the forwarded request with a 2xx status and a body *)
(* that parses as JSON                                                     *)
GotJsonBody ==
    /\ http.verb = "POST" /\ reply.t = "resp"
    /\ reply.status \in 200..299
    /\ reply.json.ok

(* C7: for a tools/call, every 2xx gateway body without a jsonrpc key      *)
(* (object, array, string, number, boolean or null) becomes a success      *)
(* response whose result.content is the single element                     *)
(* {type: "text", text: T}, T being the body itself for a string and its   *)
(* JSON serialization otherwise.                                           *)
C7_BareBodyBecomesToolContent ==
    (IsCall("tools/call") /\ GotJsonBody
     /\ ~(IsDict(reply.json.val) /\ HasKey(reply.json.val, "jsonrpc")))
    => /\ Member(out, "error") = Absent
       /\ Member(Member(out, "result"), "content")
            = JArr(<<JObj(<<Item("type", JStr("text")),
                            Item("text", IF IsStr(reply.json.val) THEN reply.json.val
                                         ELSE JStr(Dumps(reply.json.val)))>>)>>)

(* C8: every response written is a JSON-RPC 2.0 envelope with exactly one  *)
(* of result and error, on every path and for every gateway reply.         *)
C8_ExactlyOneOfResultAndError ==
    out # NoLine
    => /\ IsDict(out)
       /\ Member(out, "jsonrpc") = JStr("2.0")
       /\ (Member(out, "result") = Absent) # (Member(out, "error") = Absent)

(* the decimal text of the status codes the gateway answers with *)
StatusText(status) ==
    CASE status = 302 -> "302"
      [] status = 404 -> "404"
      [] status = 500 -> "500"

(* the gateway answered the forwarded request with a status outside 2xx *)
GotErrorStatus ==
    /\ http.verb = "POST" /\ reply.t = "resp"
    /\ reply.status \notin 200..299

(* C9: a forwarded call answered with a non-2xx status S and body text B   *)
(* yields a JSON-RPC error with code -32603, message                       *)
(* "Remote server error: S", data B and the request's id, after which the  *)
(* bridge is back at reading the next input line.                          *)
C9_RemoteErrorStatusIsReported ==
    GotErrorStatus
    => /\ Member(out, "result") = Absent
       /\ Member(Member(out, "error"), "code") = JNum(-32603)
       /\ Member(Member(out, "error"), "message")
            = JStr("Remote server error: " \o StatusText(reply.status))
       /\ Member(Member(out, "error"), "data") = JStr(reply.text)
       /\ Member(out, "id") = Get(message, "id")
       /\ pc = "read"

(* HTTP 500 "collection not found" for chroma_get_collection, request id 1: *)
(* the line on stdout is the one the specification gives                   *)
C9_Witness ==
    /\ IsCall("tools/call") /\ ToolName = JStr("chroma_get_collection")
    /\ GotErrorStatus /\ reply.status = 500 /\ reply.text = "collection not found"
    /\ out # NoLine
    /\ Dumps(out)
         = "{\"jsonrpc\": \"2.0\", \"error\": {\"code\": -32603, "
           \o "\"message\": \"Remote server error: 500\", "
           \o "\"data\": \"collection not found\"}, \"id\": 1}"

(* the forwarded request failed with an exception that is no HTTP error    *)
(* status: the POST raised, or the 2xx body is no JSON                     *)
ForwardRaised ==
    /\ http.verb = "POST"
    /\ \/ reply.t = "exc"
       \/ (reply.t = "resp" /\ reply.status \in 200..299 /\ ~reply.json.ok)

(* the text of the exception the forwarded request failed with *)
RaisedText == IF reply.t = "exc" THEN reply.exc.text ELSE reply.json.exc.text

(* C10: when forwarding fails with an exception other than an HTTP error   *)
(* status (connection failure, timeout, body that is no JSON), the         *)
(* response is a JSON-RPC error with code -32603 whose message contains    *)
(* the exception's text and whose id is the request's id.                  *)
C10_ForwardExceptionIsReported ==
    ForwardRaised
    => /\ Member(out, "result") = Absent
       /\ Member(Member(out, "error"), "code") = JNum(-32603)
       /\ IsStr(Member(Member(out, "error"), "message"))
       /\ LET text == Member(Member(out, "error"), "message").s
          IN  \E i \in 0..(Len(text) - Len(RaisedText)) :
                  SubSeq(text, i + 1, i + Len(RaisedText)) = RaisedText
       /\ Member(out, "id") = Get(message, "id")

(* a connection failure on a tool call with id 1 has been reported *)
C10_Witness ==
    /\ IsCall("tools/call") /\ Member(message, "id") = JNum(1)
    /\ ForwardRaised /\ reply.t = "exc" /\ reply.exc.type = "ConnectError"
    /\ Member(Member(out, "error"), "message")
         = JStr("Internal error: All connection attempts failed")

(* the line written is the gateway's own body, passed through *)
PassedThrough == GotJsonBody /\ out = reply.json.val

(* C11: every error response the bridge itself generates (unknown tool,    *)
(* remote HTTP error, local exception, also an exception raised while the  *)
(* request is handled) carries the id of the originating request.          *)
C11_BridgeErrorCarriesRequestId ==
    (out # NoLine /\ Member(out, "error") # Absent /\ ~PassedThrough)
    => Member(out, "id") = Get(message, "id")

(* a tools/call without params and with id "a": message["params"] raised   *)
(* KeyError, and the error response carries "a"                            *)
C11_Witness ==
    /\ IsCall("tools/call") /\ Member(message, "params") = Absent
    /\ Member(message, "id") = JStr("a")
    /\ http = NoRequest
    /\ Member(Member(out, "error"), "message") = JStr("Internal error: 'params'")
    /\ Member(out, "id") = JStr("a")

(* the forwarded request hung until the client's timeout: the POST raised  *)
(* ReadTimeout                                                             *)
TimedOut == http.verb = "POST" /\ reply.t = "exc" /\ reply.exc.type = "ReadTimeout"

(* C12: a gateway call that hangs fails at the timeout, exactly one error  *)
(* response is written for that request, and the bridge is back at         *)
(* reading the next line; a request whose HTTP call is pending is always   *)
(* eventually answered.                                                    *)
C12_HungCallFailsAndBridgeRecovers ==
    /\ [](TimedOut => /\ Cardinality(Writes(nread)) = 1
                      /\ Member(out, "result") = Absent
                      /\ Member(Member(out, "error"), "code") = JNum(-32603)
                      /\ Member(out, "id") = Get(message, "id")
                      /\ pc = "read")
    /\ (pc = "forward" ~> (pc = "read" /\ Cardinality(Writes(nread)) = 1))

(* the second line, a tools/call with id "a", timed out and was answered   *)
(* with the error                                                          *)
C12_Witness ==
    /\ TimedOut /\ nread = 2 /\ pc = "read"
    /\ IsCall("tools/call") /\ Member(message, "id") = JStr("a")
    /\ Member(Member(out, "error"), "message") = JStr("Internal error: ")

(* the protocol version an initialize request asks for, or the default     *)
RequestedVersion ==
    IF Member(Member(message, "params"), "protocolVersion") # Absent
    THEN Member(Member(message, "params"), "protocolVersion")
    ELSE JStr("2024-11-05")

(* C13: every initialize request, whatever the JSON type of its params, is *)
(* answered with result.protocolVersion equal to params.protocolVersion    *)
(* when present and "2024-11-05" otherwise, and with                       *)
(* result.capabilities.tools present.                                      *)
C13_InitializeIsAnswered ==
    (Handled /\ IsCall("initialize"))
    => /\ Member(Member(out, "result"), "protocolVersion") = RequestedVersion
       /\ Member(Member(Member(out, "result"), "capabilities"), "tools") # Absent

(* C14: an initialize request is handled locally: from reading it to       *)
(* writing its response no HTTP request is sent and no reply is awaited,   *)
(* and the line written is a result, whatever the gateway would answer.    *)
C14_InitializeIsLocal ==
    IsCall("initialize")
    => /\ http = NoRequest
       /\ HttpCalls(nread) = {}
       /\ reply = NoReply
       /\ pc \notin {"forward", "tools"}
       /\ out # NoLine => /\ Member(out, "result") # Absent
                          /\ Member(out, "error") = Absent

(* an initialize request with id 1 has been answered with its result *)
C14_Witness ==
    /\ IsCall("initialize") /\ pc = "read"
    /\ Member(message, "id") = JNum(1)
    /\ Member(Member(out, "result"), "protocolVersion") = JStr("0.1.0")
    /\ Cardinality(Writes(nread)) = 1

(* the current message is a resources/list or a prompts/list request *)
IsListOf(what) == IsCall(what \o "/list")

(* C15: resources/list and prompts/list are answered by the bridge itself  *)
(* with an empty sequence, without an HTTP request to the gateway.         *)
C15_EmptyListsAreLocal ==
    \A what \in {"resources", "prompts"} :
        (Handled /\ IsListOf(what))
        => /\ HttpCalls(nread) = {}
           /\ Member(Member(out, "result"), what) = JArr(<<>>)

(* GET /tools gave no catalog: it raised (unreachable, timed out), had a   *)
(* status outside 2xx, a body that is no JSON, or JSON that is neither an  *)
(* object with a tools key nor a list                                      *)
NoCatalogFromGateway ==
    /\ http.verb = "GET" /\ reply # NoReply
    /\ \/ reply.t = "exc"
       \/ reply.status \notin 200..299
       \/ ~reply.json.ok
       \/ /\ reply.json.val.kind # "arr"
          /\ Member(reply.json.val, "tools") = Absent

(* the names of the hardcoded catalog, in its order *)
DefaultToolNames ==
    <<"chroma_list_collections", "chroma_create_collection", "chroma_get_collection",
      "chroma_delete_collection", "chroma_add_documents", "chroma_query_collection",
      "chroma_update_documents", "chroma_delete_documents">>

(* C16: a tools/list request is always answered with a result and never    *)
(* with an error; when GET /tools gave no catalog the result's tools are   *)
(* the hardcoded default catalog, eight tools whose names start with       *)
(* chroma_.                                                                *)
C16_ToolsListFallsBackToDefault ==
    IsCall("tools/list")
    => /\ Handled => out # NoLine
       /\ out # NoLine => /\ Member(out, "error") = Absent
                          /\ Member(Member(out, "result"), "tools") # Absent
                          /\ Member(out, "id") = Get(message, "id")
       /\ NoCatalogFromGateway
          => LET tools == Member(Member(out, "result"), "tools")
             IN  /\ tools = get_default_tools
                 /\ Len(tools.elems) = 8
                 /\ \A i \in 1..8 :
                        /\ Member(tools.elems[i], "name") = JStr(DefaultToolNames[i])
                        /\ HasChromaPrefix(DefaultToolNames[i])
                        /\ Member(tools.elems[i], "inputSchema") # Absent

(* GET /tools timed out and the request got the default catalog *)
C16_Witness ==
    /\ IsCall("tools/list") /\ pc = "read"
    /\ http = HttpGet(remote_url \o "/tools")
    /\ reply.t = "exc" /\ reply.exc.type = "ReadTimeout"
    /\ Member(Member(out, "result"), "tools") = get_default_tools

(* the GET /tools requests of the session *)
CatalogFetches ==
    {i \in 1..Len(events) : events[i].e = "http" /\ events[i].url = remote_url \o "/tools"}

(* C17: the tool catalog is fetched once and cached: GET /tools is         *)
(* requested at most once in a session.                                    *)
C17_CatalogFetchedAtMostOnce == Cardinality(CatalogFetches) <= 1

(* the gateway answered a tools/call with 2xx and an object that reports   *)
(* an error and has no jsonrpc key                                         *)
GotErrorPayload ==
    /\ IsCall("tools/call") /\ GotJsonBody
    /\ Member(reply.json.val, "error") # Absent
    /\ Member(reply.json.val, "jsonrpc") = Absent

(* C18: a 2xx error payload without a jsonrpc key, in answer to a          *)
(* tools/call, is returned as a success response: a result and no error,   *)
(* whose one text content is the payload's JSON text, here                 *)
(* {"error": "collection not found"}, with the request's id.               *)
C18_ErrorPayloadIsPassedInResult ==
    GotErrorPayload
    => /\ Member(out, "error") = Absent
       /\ Member(out, "id") = Get(message, "id")
       /\ Member(out, "result")
            = JObj(<<Item("content",
                          JArr(<<JObj(<<Item("type", JStr("text")),
                                        Item("text",
                                             JStr(Dumps(reply.json.val)))>>)>>))>>)
       /\ reply.json.val = JObj(<<Item("error", JStr("collection not found"))>>)
          => Member(Member(out, "result"), "content").elems[1]
               = JObj(<<Item("type", JStr("text")),
                        Item("text", JStr("{\"error\": \"collection not found\"}"))>>)

(* the gateway answered 200 with {"error": "collection not found"} and the *)
(* response has been written                                               *)
C18_Witness ==
    /\ GotErrorPayload /\ pc = "read" /\ reply.status = 200
    /\ reply.json.val = JObj(<<Item("error", JStr("collection not found"))>>)
    /\ Member(out, "result") # Absent

(* the current message has a method other than the three handled apart *)
IsOtherMethod ==
    /\ IsDict(message)
    /\ Member(message, "method") \notin
         {JStr("initialize"), JStr("tools/list"), JStr("tools/call")}

(* C19: a request with any other method is forwarded by exactly one POST   *)
(* to <remote>/mcp whose body is the message itself; when the 2xx reply    *)
(* has no jsonrpc key the response's result is the reply body, with the    *)
(* request's id.                                                           *)
C19_OtherMethodIsForwardedPlain ==
    (Handled /\ IsOtherMethod)
    => /\ Cardinality(HttpCalls(nread)) = 1
       /\ http = Post(remote_url \o "/mcp", message)
       /\ (GotJsonBody /\ Member(reply.json.val, "jsonrpc") = Absent)
          => /\ Member(out, "result") = reply.json.val
             /\ Member(out, "error") = Absent
             /\ Member(out, "id") = Get(message, "id")

(* the indexes of the HTTP requests in the session's history *)
HttpEvents == {i \in 1..Len(events) : events[i].e = "http"}

(* C20: at most one HTTP request is in flight: each request but a last one *)
(* still awaited is followed at once by the response line of its message;  *)
(* no line is read while a message is being processed; and the HTTP calls  *)
(* are made in the order of the lines they belong to.                      *)
C20_OneMessageAtATime ==
    /\ \A i \in HttpEvents :
          IF i = Len(events)
          THEN pc \in {"forward", "tools"} /\ events[i].n = nread
          ELSE events[i + 1].e = "write" /\ events[i + 1].n = events[i].n
    /\ pc \in {"forward", "tools"}
       => Len(events) \in HttpEvents /\ Cardinality(HttpCalls(nread)) = 1
    /\ \A i \in 2..Len(events) :
          events[i].e = "read"
          => /\ events[i - 1].e = "write"
             /\ events[i].n = events[i - 1].n + 1
    /\ \A i, j \in HttpEvents : i < j => events[i].n < events[j].n

(* a tools/list was answered for line 1 and the POST of a tool call for    *)
(* line 2 is in flight                                                     *)
C20_Witness ==
    /\ pc = "forward" /\ nread = 2
    /\ events =
         <<Event("read", 1, JNum(1), ""),
           Event("http", 1, JNum(1), remote_url \o "/tools"),
           Event("write", 1, JNum(1), ""),
           Event("read", 2, JStr("a"), ""),
           Event("http", 2, JStr("a"), remote_url \o "/tools/chroma_get_collection")>>

(* stdin has given end-of-stream and the loop has been left for it *)
AtEndOfStream == line = EndOfStream /\ pc \in {"exit", "closed"}

(* C21: at end-of-stream the bridge terminates cleanly: the read that      *)
(* meets it ends the loop and writes nothing, no line and no error         *)
(* response is written afterwards, and the run ends with the HTTP client   *)
(* closed.                                                                 *)
C21_EndOfStreamIsCleanShutdown ==
    /\ [][(pc = "read" /\ line' = EndOfStream)
          => (pc' = "exit" /\ out' = NoLine /\ events' = events /\ http' = NoRequest)]_vars
    /\ [][AtEndOfStream
          => (pc' = "closed" /\ client' = "closed" /\ out' = NoLine /\ events' = events)]_vars
    /\ [](AtEndOfStream => out = NoLine /\ http = NoRequest)
    /\ [](pc = "closed" => ~ENABLED Next)
    /\ (AtEndOfStream ~> (pc = "closed" /\ client = "closed"))

(* one request was answered, then stdin ended and the client was closed *)
C21_Witness ==
    /\ AtEndOfStream /\ pc = "closed" /\ client = "closed"
    /\ nread = 1 /\ Cardinality(Writes(1)) = 1

(* C22: the HTTP client is created once, by start, and closed once, by     *)
(* cleanup, on every way out of the loop (end-of-stream, interrupt,        *)
(* exception); HTTP requests are only issued while it is open.             *)
C22_ClientCreatedAndClosedOnce ==
    /\ [][client' # client
          => \/ client = "none" /\ client' = "open" /\ pc = "start"
             \/ client = "open" /\ client' = "closed" /\ pc = "exit"]_vars
    /\ [][(http' # http /\ http' # NoRequest) \/ Len(events') > Len(events)
          => client = "open" /\ client' = "open"]_vars
    /\ [](pc \in {"read", "dispatch", "forward", "tools"} => client = "open")
    /\ [](pc = "closed" => client # "open")
    /\ [](client = "closed" => pc = "closed")

(* a tool call was interrupted while its POST was awaited, and the client  *)
(* has been closed                                                         *)
C22_Witness ==
    /\ pc = "closed" /\ client = "closed" /\ line # EndOfStream
    /\ nread = 1 /\ Cardinality(HttpCalls(1)) = 1 /\ Writes(1) = {}

(* C23: every line written to stdout is one JSON object, a JSON-RPC        *)
(* message, whatever the gateway replied.                                  *)
C23_EveryLineIsOneJsonObject ==
    out # NoLine => IsDict(out) /\ Member(out, "jsonrpc") = JStr("2.0")

(* GET /tools was answered with a 2xx status *)
GotCatalogReply ==
    /\ IsCall("tools/list") /\ http.verb = "GET"
    /\ reply.t = "resp" /\ reply.status \in 200..299

(* C24: for a 2xx GET /tools reply the catalog of the tools/list response  *)
(* is the reply's tools value when the reply is an object with a tools     *)
(* key, the reply itself when it is a list, and the default catalog in     *)
(* every other case.                                                       *)
C24_CatalogFollowsReplyShape ==
    GotCatalogReply
    => LET tools == Member(Member(out, "result"), "tools")
           body == reply.json
       IN  IF body.ok /\ Member(body.val, "tools") # Absent
           THEN tools = Member(body.val, "tools")
           ELSE IF body.ok /\ body.val.kind = "arr"
           THEN tools = body.val
           ELSE tools = get_default_tools /\ Len(tools.elems) = 8

(* GET /tools was answered with a list of one tool, which is the catalog   *)
(* of the response                                                         *)
C24_Witness ==
    /\ GotCatalogReply /\ pc = "read"
    /\ reply.json.ok /\ reply.json.val = JArr(<<ATool>>)
    /\ Member(Member(out, "result"), "tools") = JArr(<<ATool>>)

(* the Authorization header the configured token asks for: none for no     *)
(* token and for the empty one                                             *)
ExpectedAuthorization ==
    IF auth_token = None \/ auth_token = JStr("") THEN Absent
    ELSE JStr("Bearer " \o auth_token.s)

(* C25: every HTTP request carries Content-Type: application/json and      *)
(* Accept: application/json, and Authorization: Bearer <token> exactly     *)
(* when a non-empty token was configured; the headers are those of the     *)
(* client, set when it is created and the same for the whole session.      *)
C25_HeadersAreFixedAndComplete ==
    /\ http # NoRequest => client # "none"
    /\ client = "none" => headers = None
    /\ client # "none"
       => /\ Member(headers, "Content-Type") = JStr("application/json")
          /\ Member(headers, "Accept") = JStr("application/json")
          /\ Member(headers, "Authorization") = ExpectedAuthorization
          /\ Len(headers.items) = IF ExpectedAuthorization = Absent THEN 2 ELSE 3

(* a POST is in flight from a bridge started with the token s3cret *)
C25_Witness ==
    /\ auth_token = JStr("s3cret") /\ pc = "forward" /\ http.verb = "POST"
    /\ Member(headers, "Authorization") = JStr("Bearer s3cret")

(* the current message is a request that carries an id *)
IsRequestWithId ==
    /\ IsDict(message)
    /\ IsStr(Member(message, "method"))
    /\ Member(message, "id") \notin {Absent, JNull}

(* C26: for every line that is a JSON-RPC request with an id, exactly one  *)
(* response line is written before the next line is read, whatever the     *)
(* method, the params and the gateway's behaviour.                         *)
C26_ExactlyOneResponsePerRequest ==
    /\ IsRequestWithId => Cardinality(Writes(nread)) <= 1
    /\ (Handled /\ IsRequestWithId) => Cardinality(Writes(nread)) = 1

(* the last line read is a blank line, or valid JSON that is no object *)
IsNonRequestLine ==
    \/ line = BlankLine
    \/ line.raw = "json" /\ ~IsDict(line.val)

(* C27: a blank line, or a line of valid JSON that is no request object    *)
(* (null, an array, a number, a string), does not end the read loop: the   *)
(* bridge goes on to the lines that follow.                                *)
C27_NonRequestLineKeepsBridgeAlive ==
    IsNonRequestLine => pc \notin {"exit", "closed"}

(* the current message is a tools/call whose params are absent or no       *)
(* object, or hold no name, or a name that is no string                    *)
IsMalformedCall ==
    /\ IsCall("tools/call")
    /\ \/ ~IsDict(Member(message, "params"))
       \/ ~IsStr(ToolName)

(* C28: a tools/call with malformed params sends no HTTP request, is       *)
(* answered with a JSON-RPC error carrying the request's id, and leaves    *)
(* the bridge reading the next line.                                       *)
C28_MalformedCallIsRejectedLocally ==
    IsMalformedCall
    => /\ http = NoRequest /\ HttpCalls(nread) = {} /\ reply = NoReply
       /\ pc \in {"dispatch", "read"}
       /\ pc = "read"
          => /\ Cardinality(Writes(nread)) = 1
             /\ Member(out, "result") = Absent
             /\ Member(Member(out, "error"), "code") = JNum(-32603)
             /\ IsStr(Member(Member(out, "error"), "message"))
             /\ Member(out, "id") = Get(message, "id")

(* the second line, a tools/call with params null and id 1, was answered   *)
(* with the error of the failed subscript                                  *)
C28_Witness ==
    /\ IsMalformedCall /\ pc = "read" /\ nread = 2
    /\ Member(message, "params") = JNull /\ Member(message, "id") = JNum(1)
    /\ Member(Member(out, "error"), "message")
         = JStr("Internal error: 'NoneType' object is not subscriptable")

(* the gateway's last request was POST /tools/<name> *)
AskedFor(name) == gw.request.verb = "POST" /\ gw.request.url = "/tools/" \o name

(* the name is a key of the gateway's tool map *)
InToolMap(name) == \E k \in 1..Len(tool_map_keys) : tool_map_keys[k] = name

(* C29: every tool of the bridge's default catalog has a name that starts  *)
(* with chroma_ and is a key of the gateway's tool map, so a call of it is *)
(* not refused as an unknown tool.                                         *)
C29_DefaultCatalogIsExecutable ==
    \A name \in ToolNames(get_default_tools) :
        AskedFor(name)
        => /\ HasChromaPrefix(name)
           /\ InToolMap(name)
           /\ gw.response.status # 404

(* the tools of the gateway's last response *)
AdvertisedTools == Member(gw.response.content, "tools")

(* C30: the names of the tools GET /tools returns are the keys of the tool *)
(* map of POST /tools/{tool_name}: sixteen names, the same on both sides.  *)
C30_CatalogMatchesToolMap ==
    gw.request = HttpGet("/tools")
    => /\ gw.response.status = 200
       /\ Len(AdvertisedTools.elems) = Len(tool_map_keys)
       /\ \A i \in 1..Len(AdvertisedTools.elems) :
              InToolMap(Member(AdvertisedTools.elems[i], "name").s)
       /\ \A k \in 1..Len(tool_map_keys) :
              \E i \in 1..Len(AdvertisedTools.elems) :
                  Member(AdvertisedTools.elems[i], "name") = JStr(tool_map_keys[k])
       /\ Cardinality(ToolNames(AdvertisedTools)) = 16

(* GET /tools was answered after a tool call *)
C30_Witness ==
    /\ gw.request = HttpGet("/tools") /\ gw.response.status = 200
    /\ gw.log = <<"/tools/chroma_list_all_collections", "/tools">>
    /\ Len(AdvertisedTools.elems) = 16

(* the gateway's last request was a tool call, and this is the tool's name *)
IsToolCall == gw.request.verb = "POST" /\ SubSeq(gw.request.url, 1, 7) = "/tools/"

AskedTool == SubSeq(gw.request.url, 8, Len(gw.request.url))

(* C31: POST /tools/{tool_name} answers a name that is no key of the tool  *)
(* map with status 404 and the detail "Tool not found: <name>"; status 500 *)
(* is only the answer to a known tool.                                     *)
C31_UnknownToolIs404 ==
    IsToolCall
    => /\ ~InToolMap(AskedTool)
          => /\ gw.response.status = 404
             /\ Member(gw.response.content, "detail")
                  = JStr("Tool not found: " \o AskedTool)
       /\ gw.response.status = 500 => InToolMap(AskedTool)

(* the gateway's last request was POST /mcp with a JSON object as body *)
IsMcpCall ==
    /\ gw.request.verb = "POST" /\ gw.request.url = "/mcp"
    /\ IsDict(gw.request.json)

McpMethod == Member(gw.request.json, "method")

HandledMcpMethods ==
    {JStr("initialize"), JStr("tools/list"), JStr("notifications/initialized"),
     JStr("resources/list"), JStr("prompts/list")}

(* C32: POST /mcp answers a method it does not handle with status 404 and  *)
(* the detail "Method not found: <method>".                                *)
C32_UnknownMethodIs404 ==
    (IsMcpCall /\ IsStr(McpMethod) /\ McpMethod \notin HandledMcpMethods)
    => /\ gw.response.status = 404
       /\ Member(gw.response.content, "detail")
            = JStr("Method not found: " \o McpMethod.s)

(* C33: a POST /mcp reply with a result is a JSON-RPC envelope that has    *)
(* the request's id when that is not null and no id field otherwise; the   *)
(* methods with a result give one whenever params is an object or absent;  *)
(* the reply to notifications/initialized is the empty object.             *)
C33_McpReplyCarriesIdWhenGiven ==
    IsMcpCall
    => LET request == gw.request.json
           content == gw.response.content
       IN  /\ McpMethod = JStr("notifications/initialized")
              => gw.response = GatewayResponse(200, JObj(<<>>))
           /\ Member(content, "result") # Absent
              => /\ gw.response.status = 200
                 /\ Member(content, "jsonrpc") = JStr("2.0")
                 /\ Member(content, "error") = Absent
                 /\ McpMethod \in HandledMcpMethods
                 /\ IF Member(request, "id") \in {Absent, JNull}
                    THEN Member(content, "id") = Absent
                    ELSE Member(content, "id") = Member(request, "id")
           /\ (/\ McpMethod \in HandledMcpMethods \ {JStr("notifications/initialized")}
               /\ Member(request, "params") = Absent \/ IsDict(Member(request, "params")))
              => Member(content, "result") # Absent

(* tools/list with the id null was answered with a result and no id, after *)
(* an initialize                                                           *)
C33_Witness ==
    /\ IsMcpCall /\ McpMethod = JStr("tools/list")
    /\ HasKey(gw.request.json, "id") /\ Member(gw.request.json, "id") = JNull
    /\ Member(gw.response.content, "result") # Absent
    /\ Member(gw.response.content, "id") = Absent
    /\ gw.log = <<"/mcp", "/mcp">>

(* the last tool call of the server *)
IsSwitch(s) == s.call.op = "switch_context"

IsAdd(s) == s.call.op = "add_documents"

IsUpdate(s) == s.call.op = "update_documents"

(* C34: chroma_switch_context changes exactly the components it is given:  *)
(* a component passed as None keeps the value it had, a component that is  *)
(* given is the one the call returns and chroma_get_current_context        *)
(* reports after it, and the same call once more gives the same context.   *)
C34_SwitchChangesWhatIsGiven ==
    [][IsSwitch(srv') =>
          LET given == srv'.call.input
              before == chroma_get_current_context(srv).call.outcome.val
              after == chroma_get_current_context(srv').call.outcome.val
              again == chroma_switch_context(srv', given.tenant, given.database)
          IN  /\ given.tenant = None => after.tenant = before.tenant
              /\ given.database = None => after.database = before.database
              /\ given.tenant # None => after.tenant = given.tenant.s
              /\ given.database # None => after.database = given.database.s
              /\ srv'.call.outcome = Ok(after)
              /\ again.call.outcome = Ok(after)]_vars

(* the tenant and the database of the client the next tool call uses *)
NextClient == get_chroma_client(srv).chroma_client

(* C35: for every client type the tenant and the database that             *)
(* chroma_get_current_context reports are the ones the client of the next  *)
(* tool call is bound to; a switch drops the cached client, and a tool     *)
(* call that finds a cached client uses that one and builds none.          *)
C35_ContextIsClientBinding ==
    /\ [](/\ chroma_get_current_context(srv).call.outcome.val.tenant = NextClient.tenant
          /\ chroma_get_current_context(srv).call.outcome.val.database
                 = NextClient.database)
    /\ [][IsSwitch(srv') => srv'.chroma_client = None]_vars
    /\ [][((IsAdd(srv') \/ IsUpdate(srv')) /\ srv'.call.obtained) =>
              IF srv.chroma_client = None
              THEN srv'.call.built /\ srv'.chroma_client # None
              ELSE ~srv'.call.built /\ srv'.chroma_client = srv.chroma_client]_vars

(* the ids of the collection a call with this input works on, before it *)
PresentIds(s, input) ==
    LET key == CollectionKey(get_chroma_client(s).chroma_client, input.collection_name)
    IN  IF key \in DOMAIN s.store THEN Elements(collection_ids(s.store[key])) ELSE {}

(* an add call whose arguments pass the checks made before the client is   *)
(* obtained                                                                *)
PassesAddChecks(input) ==
    /\ input.documents # <<>>
    /\ input.ids # <<>>
    /\ \A i \in 1..Len(input.ids) : input.ids[i] \notin {"", " "}
    /\ Len(input.ids) = Len(input.documents)

InvalidAddInput(input) ==
    \/ input.documents = <<>>
    \/ input.ids = <<>>
    \/ \E i \in 1..Len(input.ids) : input.ids[i] \in {"", " "}
    \/ Len(input.ids) # Len(input.documents)
    \/ input.metadatas # None /\ Len(input.metadatas.elems) # Len(input.ids)

(* the arguments of an update call are invalid: no ids, none of            *)
(* embeddings, metadatas and documents, or one of them of another length   *)
(* than ids                                                                *)
InvalidUpdateInput(input) ==
    \/ input.ids = <<>>
    \/ input.embeddings = None /\ input.metadatas = None /\ input.documents = None
    \/ input.embeddings # None /\ Len(input.embeddings.elems) # Len(input.ids)
    \/ input.metadatas # None /\ Len(input.metadatas.elems) # Len(input.ids)
    \/ input.documents # None /\ Len(input.documents.elems) # Len(input.ids)

(* C37: an add or update call with invalid arguments raises an error       *)
(* without touching the database: it obtains no client, and no collection  *)
(* is created or modified.                                                 *)
C37_InvalidInputTouchesNothing ==
    [][((IsAdd(srv') /\ InvalidAddInput(srv'.call.input))
        \/ (IsUpdate(srv') /\ InvalidUpdateInput(srv'.call.input))) =>
          /\ ~srv'.call.outcome.ok
          /\ ~srv'.call.obtained
          /\ srv'.chroma_client = srv.chroma_client
          /\ srv'.store = srv.store]_vars

(* b is the configured remote URL without its trailing slashes *)
IsRemoteBase(b) ==
    /\ Len(b) <= Len(args_remote_url)
    /\ b = SubSeq(args_remote_url, 1, Len(b))
    /\ b = "" \/ SubSeq(b, Len(b), Len(b)) # "/"
    /\ \A i \in (Len(b) + 1)..Len(args_remote_url) : SubSeq(args_remote_url, i, i) = "/"

RemoteBase ==
    CHOOSE b \in {SubSeq(args_remote_url, 1, k) : k \in 0..Len(args_remote_url)} :
        IsRemoteBase(b)

(* url is the base, one slash, and one of the three paths *)
IsOutboundUrl(url) ==
    \/ url = RemoteBase \o "/mcp"
    \/ url = RemoteBase \o "/tools"
    \/ /\ Len(url) > Len(RemoteBase) + 7
       /\ SubSeq(url, 1, Len(RemoteBase) + 7) = RemoteBase \o "/tools/"
       /\ HasChromaPrefix(SubSeq(url, Len(RemoteBase) + 8, Len(url)))

(* C38: every URL the bridge requests is the remote base, without the      *)
(* trailing slashes of the configured URL, followed by /tools/<name>, /mcp *)
(* or /tools: one slash between base and path; a tool call asks for        *)
(* /tools/<name> with the name of the call.                                *)
C38_OneSlashBetweenBaseAndPath ==
    /\ \A i \in HttpEvents : IsOutboundUrl(events[i].url)
    /\ http # NoRequest => IsOutboundUrl(http.url)
    /\ (http # NoRequest /\ IsCall("tools/call")) =>
           http.url = RemoteBase \o "/tools/" \o ToolName.s
    /\ (http # NoRequest /\ IsCall("tools/list")) => http.url = RemoteBase \o "/tools"
    /\ (http # NoRequest /\ ~IsCall("tools/call") /\ ~IsCall("tools/list")) =>
           http.url = RemoteBase \o "/mcp"

(* the bridge configured with two trailing slashes has asked for the       *)
(* catalog and for a tool                                                  *)
C38_Witness ==
    /\ args_remote_url = "http://gw//"
    /\ \E i \in HttpEvents : events[i].url = "http://gw/tools"
    /\ \E i \in HttpEvents : events[i].url = "http://gw/tools/chroma_get_collection"

====
